---- MODULE Spec2Model ----
(***************************************************************************)
(* A model of the linebased preprocessor: the line tokenizer (Decoder),    *)
(* the argument splitter (ParseArgs) and the macro/include expansion       *)
(* engine (ExpandingDecoder).                                              *)
(*                                                                         *)
(* Text is modelled by TLA+ strings.  Go's byte offsets are 0-based and    *)
(* s[i:j] is half open; Slice(s, i, j) below is s[i:j] and At(s, i) is     *)
(* s[i], so the translated definitions keep the indices of the source.     *)
(* An index of -1 is "not found", as in package strings.                   *)
(***************************************************************************)
EXTENDS Integers, Sequences, FiniteSets, TLC

(***************************************************************************)
(* Package strings / unicode, as used by the source.                       *)
(***************************************************************************)

\* s[i:j]
Slice(s, i, j) == SubSeq(s, i + 1, j)

\* s[i:]
From(s, i) == SubSeq(s, i + 1, Len(s))

\* s[i]
At(s, i) == SubSeq(s, i + 1, i + 1)

\* unicode.IsSpace on the characters the model's texts are made of.
IsSpace(c) == c \in {" ", "\t", "\n", "\r", "\f"}

HasPrefix(s, p) == Len(s) >= Len(p) /\ Slice(s, 0, Len(p)) = p

HasSuffix(s, p) == Len(s) >= Len(p) /\ From(s, Len(s) - Len(p)) = p

TrimSuffix(s, p) == IF HasSuffix(s, p) THEN Slice(s, 0, Len(s) - Len(p)) ELSE s

\* The least index i >= from with At(s, i) in cs, or -1.
RECURSIVE IndexIn(_, _, _)
IndexIn(s, cs, from) ==
    IF from >= Len(s) THEN -1
    ELSE IF At(s, from) \in cs THEN from
    ELSE IndexIn(s, cs, from + 1)

\* strings.IndexAny(s, " \t\n")
IndexAny(s, cs) == IndexIn(s, cs, 0)

\* strings.IndexFunc(s, unicode.IsSpace)
IndexSpace(s) == IndexIn(s, {" ", "\t", "\n", "\r", "\f"}, 0)

\* strings.TrimLeft(s, cutset): drop the leading characters that are in cs.
RECURSIVE TrimLeft(_, _)
TrimLeft(s, cs) ==
    IF Len(s) > 0 /\ At(s, 0) \in cs THEN TrimLeft(From(s, 1), cs) ELSE s

RECURSIVE TrimRight(_, _)
TrimRight(s, cs) ==
    IF Len(s) > 0 /\ At(s, Len(s) - 1) \in cs
    THEN TrimRight(Slice(s, 0, Len(s) - 1), cs) ELSE s

\* strings.TrimLeftFunc(s, unicode.IsSpace)
TrimLeftSpace(s) == TrimLeft(s, {" ", "\t", "\n", "\r", "\f"})

\* strings.TrimSpace(s)
TrimSpace(s) == TrimRight(TrimLeftSpace(s), {" ", "\t", "\n", "\r", "\f"})

\* strings.Contains(s, c) for a one-character c
ContainsChar(s, c) == IndexIn(s, {c}, 0) >= 0

\* strings.ContainsAny(s, chars)
ContainsAny(s, cs) == IndexIn(s, cs, 0) >= 0

\* strings.Cut(s, "\n"): the text before and after the first newline.
CutNL(s) ==
    LET i == IndexIn(s, {"\n"}, 0)
    IN  IF i < 0 THEN [before |-> s, after |-> ""]
        ELSE [before |-> Slice(s, 0, i), after |-> From(s, i + 1)]

\* strings.Fields(s): the maximal runs of non-space characters of s.
RECURSIVE Fields(_)
Fields(s) ==
    LET t == TrimLeftSpace(s)
        i == IndexSpace(t)
    IN  IF t = "" THEN <<>>
        ELSE IF i < 0 THEN <<t>>
        ELSE <<Slice(t, 0, i)>> \o Fields(From(t, i))

\* slices.Index(xs, x): 0-based index of the first x in xs, or -1.
RECURSIVE IndexOfFrom(_, _, _)
IndexOfFrom(xs, x, k) ==
    IF k > Len(xs) THEN -1
    ELSE IF xs[k] = x THEN k - 1
    ELSE IndexOfFrom(xs, x, k + 1)

SlicesIndex(xs, x) == IndexOfFrom(xs, x, 1)

\* slices.Contains(xs, x)
SlicesContains(xs, x) == \E k \in 1..Len(xs) : xs[k] = x

(***************************************************************************)
(* Errors.  Every error value is a record of one shape:                    *)
(*   kind  "nil", "EOF", "syntax" (a *SyntaxError) or "expr" (an           *)
(*         *ExpressionError);                                              *)
(*   msg   the message of the underlying error;                            *)
(*   line  SyntaxError.Line;                                               *)
(*   at    ExpressionError.Expanded, the located expression.               *)
(***************************************************************************)
ZeroExpression == [Line |-> 0, Comment |-> "", Name |-> "", Body |-> ""]

ZeroExpanded ==
    [Line |-> 0, Comment |-> "", Name |-> "", Body |-> "", File |-> "", Stack |-> <<>>]

Nil == [kind |-> "nil", msg |-> "", line |-> 0, at |-> ZeroExpanded]

EOF == [kind |-> "EOF", msg |-> "EOF", line |-> 0, at |-> ZeroExpanded]

SyntaxError(line, message) ==
    [kind |-> "syntax", msg |-> message, line |-> line, at |-> ZeroExpanded]

ExpressionError(expanded, message) ==
    [kind |-> "expr", msg |-> message, line |-> 0, at |-> expanded]

(***************************************************************************)
(* The tokenizer: Decoder.                                                 *)
(*   r     the unread rest of the input (the bufio.Reader);                *)
(*   line  the number of lines read so far.                                *)
(***************************************************************************)
NewDecoder(text) == [r |-> text, line |-> 0]

\* bufio.Reader.ReadString('\n'): the text through the first newline, or all
\* that is left together with io.EOF.
ReadString(r) ==
    LET i == IndexIn(r, {"\n"}, 0)
    IN  IF i < 0 THEN [s |-> r, rest |-> "", err |-> EOF]
        ELSE [s |-> Slice(r, 0, i + 1), rest |-> From(r, i + 1), err |-> Nil]

readLine(d) ==
    LET rs == ReadString(d.r)
    IN  [d |-> [r |-> rs.rest, line |-> d.line + 1], s |-> rs.s, err |-> rs.err]

\* Peek(1): the next byte, unread; 0 (here "") with io.EOF at the end of input.
peek(d) ==
    IF d.r = "" THEN [b |-> "", err |-> EOF] ELSE [b |-> At(d.r, 0), err |-> Nil]

parseBody(body) ==
    LET i == IndexAny(body, {" ", "\t", "\n"})
    IN  IF i < 0 THEN [name |-> TrimSpace(body), tail |-> ""]
        ELSE [name |-> TrimSpace(Slice(body, 0, i)),
              tail |-> TrimLeft(From(body, i), {" ", "\t"})]

makeExpr(line, comment, body) ==
    LET p == parseBody(body)
    IN  [Line |-> line, Comment |-> comment, Name |-> p.name, Body |-> p.tail]

\* An inner loop that reads the next line instead of peeking at it, and
\* drops it when it is no continuation line.
RECURSIVE ReadContinuationNoPeek(_, _)
ReadContinuationNoPeek(d, body) ==
    LET rl == readLine(d)
    IN  IF rl.s = "" THEN [d |-> d, body |-> body]
        ELSE IF At(rl.s, 0) # "\t" THEN [d |-> rl.d, body |-> body]
        ELSE IF rl.err = EOF THEN [d |-> rl.d, body |-> body \o From(rl.s, 1)]
        ELSE ReadContinuationNoPeek(rl.d, body \o From(rl.s, 1))

\* The inner loop of Decode: append the continuation lines to body.
RECURSIVE ReadContinuation(_, _)
ReadContinuation(d, body) ==
    LET pk == peek(d)
    IN  IF pk.b # "\t" THEN [d |-> d, body |-> body]
        ELSE LET rl == readLine(d)
                 b2 == body \o From(rl.s, 1)
             IN  IF rl.err = EOF THEN [d |-> rl.d, body |-> b2]
                 ELSE ReadContinuation(rl.d, b2)

\* A Decode that numbers a comment left without a newline one line early.
RECURSIVE DecodeLinesEarly(_, _)
DecodeLinesEarly(d, comments) ==
    LET rl == readLine(d)
        d1 == rl.d
    IN  IF rl.err # Nil /\ rl.s = ""
        THEN IF Len(comments) > 0
             THEN LET exprLine == IF HasSuffix(comments, "\n")
                                  THEN d1.line ELSE d1.line - 2
                  IN  [d |-> d1, expr |-> makeExpr(exprLine, comments, ""), err |-> Nil]
             ELSE [d |-> d1, expr |-> ZeroExpression, err |-> rl.err]
        ELSE CASE At(rl.s, 0) = "\n" ->
                    [d |-> d1, expr |-> makeExpr(d1.line, comments, rl.s), err |-> Nil]
               [] At(rl.s, 0) = "#" ->
                    DecodeLinesEarly(d1, comments \o rl.s)
               [] At(rl.s, 0) \in {" ", "\t"} ->
                    [d |-> d1, expr |-> ZeroExpression,
                     err |-> SyntaxError(d1.line, "unexpected whitespace at start of line")]
               [] OTHER ->
                    LET c == ReadContinuation(d1, rl.s)
                    IN  [d |-> c.d, expr |-> makeExpr(d1.line, comments, c.body),
                         err |-> Nil]

\* A Decode that takes a line that starts with a space for a command.
RECURSIVE DecodeLinesSpaces(_, _)
DecodeLinesSpaces(d, comments) ==
    LET rl == readLine(d)
        d1 == rl.d
    IN  IF rl.err # Nil /\ rl.s = ""
        THEN IF Len(comments) > 0
             THEN LET exprLine == IF HasSuffix(comments, "\n")
                                  THEN d1.line ELSE d1.line - 1
                  IN  [d |-> d1, expr |-> makeExpr(exprLine, comments, ""), err |-> Nil]
             ELSE [d |-> d1, expr |-> ZeroExpression, err |-> rl.err]
        ELSE CASE At(rl.s, 0) = "\n" ->
                    [d |-> d1, expr |-> makeExpr(d1.line, comments, rl.s), err |-> Nil]
               [] At(rl.s, 0) = "#" ->
                    DecodeLinesSpaces(d1, comments \o rl.s)
               [] At(rl.s, 0) = "\t" ->
                    [d |-> d1, expr |-> ZeroExpression,
                     err |-> SyntaxError(d1.line, "unexpected whitespace at start of line")]
               [] OTHER ->
                    LET c == ReadContinuation(d1, rl.s)
                    IN  [d |-> c.d, expr |-> makeExpr(d1.line, comments, c.body),
                         err |-> Nil]

\* A Decode that gives up the rest of its input at a SyntaxError.
RECURSIVE DecodeLinesGivesUp(_, _)
DecodeLinesGivesUp(d, comments) ==
    LET rl == readLine(d)
        d1 == rl.d
    IN  IF rl.err # Nil /\ rl.s = ""
        THEN IF Len(comments) > 0
             THEN LET exprLine == IF HasSuffix(comments, "\n")
                                  THEN d1.line ELSE d1.line - 1
                  IN  [d |-> d1, expr |-> makeExpr(exprLine, comments, ""), err |-> Nil]
             ELSE [d |-> d1, expr |-> ZeroExpression, err |-> rl.err]
        ELSE CASE At(rl.s, 0) = "\n" ->
                    [d |-> d1, expr |-> makeExpr(d1.line, comments, rl.s), err |-> Nil]
               [] At(rl.s, 0) = "#" ->
                    DecodeLinesGivesUp(d1, comments \o rl.s)
               [] At(rl.s, 0) \in {" ", "\t"} ->
                    [d |-> [d1 EXCEPT !.r = ""], expr |-> ZeroExpression,
                     err |-> SyntaxError(d1.line, "unexpected whitespace at start of line")]
               [] OTHER ->
                    LET c == ReadContinuation(d1, rl.s)
                    IN  [d |-> c.d, expr |-> makeExpr(d1.line, comments, c.body),
                         err |-> Nil]

\* A Decode that keeps only the last of the comment lines it reads.
RECURSIVE DecodeLinesLastComment(_, _)
DecodeLinesLastComment(d, comments) ==
    LET rl == readLine(d)
        d1 == rl.d
    IN  IF rl.err # Nil /\ rl.s = ""
        THEN IF Len(comments) > 0
             THEN LET exprLine == IF HasSuffix(comments, "\n")
                                  THEN d1.line ELSE d1.line - 1
                  IN  [d |-> d1, expr |-> makeExpr(exprLine, comments, ""), err |-> Nil]
             ELSE [d |-> d1, expr |-> ZeroExpression, err |-> rl.err]
        ELSE CASE At(rl.s, 0) = "\n" ->
                    [d |-> d1, expr |-> makeExpr(d1.line, comments, rl.s), err |-> Nil]
               [] At(rl.s, 0) = "#" ->
                    DecodeLinesLastComment(d1, rl.s)
               [] At(rl.s, 0) \in {" ", "\t"} ->
                    [d |-> d1, expr |-> ZeroExpression,
                     err |-> SyntaxError(d1.line, "unexpected whitespace at start of line")]
               [] OTHER ->
                    LET c == ReadContinuation(d1, rl.s)
                    IN  [d |-> c.d, expr |-> makeExpr(d1.line, comments, c.body),
                         err |-> Nil]

\* The outer loop of Decode; comments is the comment text gathered so far.
RECURSIVE DecodeLines(_, _)
DecodeLines(d, comments) ==
    LET rl == readLine(d)
        d1 == rl.d
    IN  IF rl.err # Nil /\ rl.s = ""
        THEN IF Len(comments) > 0
             THEN LET exprLine == IF HasSuffix(comments, "\n")
                                  THEN d1.line ELSE d1.line - 1
                  IN  [d |-> d1, expr |-> makeExpr(exprLine, comments, ""), err |-> Nil]
             ELSE [d |-> d1, expr |-> ZeroExpression, err |-> rl.err]
        ELSE CASE At(rl.s, 0) = "\n" ->
                    [d |-> d1, expr |-> makeExpr(d1.line, comments, rl.s), err |-> Nil]
               [] At(rl.s, 0) = "#" ->
                    DecodeLines(d1, comments \o rl.s)
               [] At(rl.s, 0) \in {" ", "\t"} ->
                    [d |-> d1, expr |-> ZeroExpression,
                     err |-> SyntaxError(d1.line, "unexpected whitespace at start of line")]
               [] OTHER ->
                    LET c == ReadContinuation(d1, rl.s)
                    IN  [d |-> c.d, expr |-> makeExpr(d1.line, comments, c.body),
                         err |-> Nil]

\* Decoder.Decode
DecoderDecode(d) == DecodeLines(d, "")

(***************************************************************************)
(* Expanded: String, Where, locationForError; cutField, ParseArgs, Args.   *)
(***************************************************************************)

\* cmp.Or(file, "<unknown>")
FileOrUnknown(file) == IF file = "" THEN "<unknown>" ELSE file

\* Expanded.String
String(e) ==
    LET tail == TrimSuffix(e.Body, "\n")
    IN  IF HasPrefix(tail, "\n")
        THEN e.Name \o tail \o "\n"
        ELSE LET t == TrimLeftSpace(tail)
             IN  IF t # "" THEN e.Name \o " " \o t \o "\n" ELSE e.Name \o "\n"

\* Expanded.Where
Where(e) ==
    LET file == FileOrUnknown(e.File)
    IN  IF Len(e.Stack) > 0
        THEN file \o ":" \o ToString(e.Stack[1].Line) \o ": "
                  \o e.Stack[Len(e.Stack)].Name \o "@" \o ToString(e.Line)
        ELSE file \o ":" \o ToString(e.Line) \o ": main@" \o ToString(e.Line)

\* Expanded.locationForError
locationForError(e) ==
    IF Len(e.Stack) = 0
    THEN IF e.Line = 0 THEN FileOrUnknown(e.File)
         ELSE FileOrUnknown(e.File) \o ":" \o ToString(e.Line)
    ELSE Where(e)

\* The text of an error value: ExpressionError.Error, SyntaxError.Error, io.EOF.
ErrorText(err) ==
    CASE err.kind = "expr"   -> locationForError(err.at) \o ": " \o err.msg
      [] err.kind = "syntax" -> ToString(err.line) \o ": " \o err.msg
      [] OTHER               -> err.msg

\* fmt's %q of a string: quoted, with Go's escapes.
RECURSIVE Escaped(_)
Escaped(s) ==
    IF s = "" THEN ""
    ELSE LET c == At(s, 0)
             e == CASE c = "\n" -> "\\n"
                    [] c = "\t" -> "\\t"
                    [] c = "\r" -> "\\r"
                    [] c = "\f" -> "\\f"
                    [] c = "\"" -> "\\\""
                    [] c = "\\" -> "\\\\"
                    [] OTHER    -> c
         IN  e \o Escaped(From(s, 1))

Quote(s) == "\"" \o Escaped(s) \o "\""

cutField(s0) ==
    LET s == TrimLeftSpace(s0)
        i == IndexSpace(s)
    IN  IF i < 0 THEN [before |-> s, after |-> ""]
        ELSE [before |-> Slice(s, 0, i), after |-> TrimLeftSpace(From(s, i))]

\* The loop of ParseArgs; unlimited is n < 0 at entry.
RECURSIVE ParseArgsLoop(_, _, _, _)
ParseArgsLoop(s, n, unlimited, args) ==
    IF s = "" THEN args
    ELSE IF n = 1 /\ ~unlimited THEN Append(args, s)
    ELSE LET c == cutField(s)
         IN  ParseArgsLoop(c.after, n - 1, unlimited, Append(args, c.before))

ParseArgs(s, n) == IF n = 0 THEN <<>> ELSE ParseArgsLoop(s, n, n < 0, <<>>)

\* Args.At
ArgsAt(a, i) == IF i < 0 \/ i >= Len(a) THEN "" ELSE TrimSuffix(a[i + 1], "\n")

(***************************************************************************)
(* os.Expand, which expandTemplate uses to substitute parameters.          *)
(***************************************************************************)
Digits == {"0", "1", "2", "3", "4", "5", "6", "7", "8", "9"}

Letters ==
    {"a", "b", "c", "d", "e", "f", "g", "h", "i", "j", "k", "l", "m",
     "n", "o", "p", "q", "r", "s", "t", "u", "v", "w", "x", "y", "z",
     "A", "B", "C", "D", "E", "F", "G", "H", "I", "J", "K", "L", "M",
     "N", "O", "P", "Q", "R", "S", "T", "U", "V", "W", "X", "Y", "Z"}

isShellSpecialVar(c) == c \in {"*", "#", "$", "@", "!", "?", "-"} \cup Digits

isAlphaNum(c) == c = "_" \/ c \in Digits \/ c \in Letters

\* The length of the longest prefix of s made of alphanumerics.
RECURSIVE AlphaNumRun(_, _)
AlphaNumRun(s, i) ==
    IF i < Len(s) /\ isAlphaNum(At(s, i)) THEN AlphaNumRun(s, i + 1) ELSE i

\* getShellName(s), s non-empty: the name that follows a '$' and its width.
getShellName(s) ==
    IF At(s, 0) = "{"
    THEN IF Len(s) > 2 /\ isShellSpecialVar(At(s, 1)) /\ At(s, 2) = "}"
         THEN [name |-> At(s, 1), w |-> 3]
         ELSE LET i == IndexIn(s, {"}"}, 1)
              IN  IF i < 0 THEN [name |-> "", w |-> 1]
                  ELSE IF i = 1 THEN [name |-> "", w |-> 2]
                  ELSE [name |-> Slice(s, 1, i), w |-> i + 1]
    ELSE IF isShellSpecialVar(At(s, 0)) THEN [name |-> At(s, 0), w |-> 1]
    ELSE LET i == AlphaNumRun(s, 0) IN [name |-> Slice(s, 0, i), w |-> i]

\* A getParam that keeps the newline that ends the last argument.
getParamRaw(params, args, name, unknown) ==
    LET i == SlicesIndex(params, name)
    IN  IF i >= 0 THEN [val |-> args[i + 1], unknown |-> unknown]
        ELSE [val |-> "", unknown |-> IF unknown = "" THEN name ELSE unknown]

\* The place of the last x in xs, 0-based, or -1.
LastIndex(xs, x) ==
    IF \E k \in 1..Len(xs) : xs[k] = x
    THEN (CHOOSE k \in 1..Len(xs) : xs[k] = x /\ \A j \in (k + 1)..Len(xs) : xs[j] # x) - 1
    ELSE -1

\* A getParam that takes the argument at the last position of name.
getParamLast(params, args, name, unknown) ==
    LET i == LastIndex(params, name)
    IN  IF i >= 0 THEN [val |-> TrimSuffix(args[i + 1], "\n"), unknown |-> unknown]
        ELSE [val |-> "", unknown |-> IF unknown = "" THEN name ELSE unknown]

\* The closure getParam of expandTemplate: the argument at the position of
\* name in params; unknown is the variable unknownParam it writes.
getParam(params, args, name, unknown) ==
    LET i == SlicesIndex(params, name)
    IN  IF i >= 0 THEN [val |-> TrimSuffix(args[i + 1], "\n"), unknown |-> unknown]
        ELSE [val |-> "", unknown |-> IF unknown = "" THEN name ELSE unknown]

\* os.Expand(s, getParam): i is the start of the text not yet copied, j the
\* scan position, buf the output so far.
RECURSIVE ExpandLoop(_, _, _, _, _, _, _)
ExpandLoop(s, i, j, buf, unknown, params, args) ==
    IF j >= Len(s) THEN [out |-> buf \o From(s, i), unknown |-> unknown]
    ELSE IF At(s, j) = "$" /\ j + 1 < Len(s)
    THEN LET n  == getShellName(From(s, j + 1))
             b1 == buf \o Slice(s, i, j)
             g  == getParam(params, args, n.name, unknown)
         IN  IF n.name = "" /\ n.w > 0
             THEN ExpandLoop(s, j + n.w + 1, j + n.w + 1, b1, unknown, params, args)
             ELSE IF n.name = ""
             THEN ExpandLoop(s, j + 1, j + 1, b1 \o "$", unknown, params, args)
             ELSE ExpandLoop(s, j + n.w + 1, j + n.w + 1, b1 \o g.val, g.unknown,
                             params, args)
    ELSE ExpandLoop(s, i, j + 1, buf, unknown, params, args)

Expand(s, unknown, params, args) == ExpandLoop(s, 0, 0, "", unknown, params, args)

(***************************************************************************)
(* The expansion engine: ExpandingDecoder.  A value d is the struct:       *)
(*   fsys          the filesystem, a function from file names to text;     *)
(*   defs          the Template Registry, a function from names to         *)
(*                 templates;                                              *)
(*   root          the prefix of file paths in locations;                  *)
(*   decoderStack  the nested decoders, the current one last;              *)
(*   pending       the expressions waiting to be returned;                 *)
(*   callStack     [frames, seen]: the template calls being expanded and   *)
(*                 the names marked active;                                *)
(*   includeStack  the names of the files being read;                      *)
(*   err           the sticky error, Nil while there is none.              *)
(* hist is not a field of the program: it records what the engine did,     *)
(*   opened  the names passed to fsys.Open, in order;                      *)
(*   reads   the number of Decoder.Decode calls made;                      *)
(*   calls   one entry per expandTemplate activation: site, the call as    *)
(*           it was pushed; active, the names of the frames that were on   *)
(*           the Call Stack; defs, the names the registry held; reads,     *)
(*           the number of Decoder.Decode calls made before it;            *)
(*   includes  one entry per include expression: site, the expression;     *)
(*           path, its argument with the extension; stack and decoders,    *)
(*           the Include Stack and the Decoder Stack before it; opened,    *)
(*           how many files had been opened before it;                     *)
(*   defines   one entry per define expression given to d.define: site,    *)
(*           the expression; known, the names the registry held; depth,    *)
(*           the number of frames on the Call Stack.                       *)
(***************************************************************************)

\* The depth of nested expandTemplate activations the model follows.  The
\* program recurses on the native stack; an activation nested deeper than
\* this is reported as the outcome "overflow": Decode does not return.
MaxDepth == 6

Overflow == [kind |-> "overflow", msg |-> "stack overflow", line |-> 0, at |-> ZeroExpanded]

\* fs.FS.Open of a map filesystem: the text of the file, or a *fs.PathError.
Open(fsys, name) ==
    IF name \in DOMAIN fsys
    THEN [ok |-> TRUE, text |-> fsys[name], msg |-> ""]
    ELSE [ok |-> FALSE, text |-> "", msg |-> "open " \o name \o ": file does not exist"]

NewExpandingDecoder(name, fsys) ==
    LET f == Open(fsys, name)
        d == [fsys |-> fsys, defs |-> <<>>, root |-> "",
              decoderStack |-> <<>>, pending |-> <<>>,
              callStack |-> [frames |-> <<>>, seen |-> {}],
              includeStack |-> <<>>, err |-> Nil,
              hist |-> [opened |-> <<name>>, reads |-> 0, calls |-> <<>>,
                        includes |-> <<>>, defines |-> <<>>]]
    IN  IF ~f.ok
        THEN [d EXCEPT !.err = ExpressionError(
                 [ZeroExpanded EXCEPT !.Line = 1, !.File = name], f.msg)]
        ELSE [d EXCEPT !.decoderStack = <<[dec |-> NewDecoder(f.text), file |-> name]>>,
                       !.includeStack = <<name>>]

\* ExpandingDecoder.SetRoot
SetRoot(d, root) == [d EXCEPT !.root = root]

\* path.Join(d.root, name)
filePath(d, name) ==
    IF d.root = "" THEN name ELSE TrimRight(d.root, {"/"}) \o "/" \o name

\* A push that never reports a name as already seen.
pushAlways(s, expr) ==
    [s |-> [frames |-> Append(s.frames, expr), seen |-> s.seen \cup {expr.Name}],
     initial |-> TRUE]

\* A push that detects only a call of the template on top of the stack.
pushTopOnly(s, expr) ==
    [s |-> [frames |-> Append(s.frames, expr), seen |-> s.seen \cup {expr.Name}],
     initial |-> Len(s.frames) = 0 \/ s.frames[Len(s.frames)].Name # expr.Name]

\* A push that detects only a call of the template at the bottom of the stack.
pushBottomOnly(s, expr) ==
    [s |-> [frames |-> Append(s.frames, expr), seen |-> s.seen \cup {expr.Name}],
     initial |-> Len(s.frames) = 0 \/ s.frames[1].Name # expr.Name]

\* stack.push: the frame is appended also when the name is already seen.
push(s, expr) ==
    [s |-> [frames |-> Append(s.frames, expr), seen |-> s.seen \cup {expr.Name}],
     initial |-> expr.Name \notin s.seen]

\* stack.pop (called on a non-empty stack only)
pop(s) ==
    [frames |-> SubSeq(s.frames, 1, Len(s.frames) - 1),
     seen   |-> s.seen \ {s.frames[Len(s.frames)].Name}]

framesCopy(s) == s.frames

RECURSIVE writeStack(_, _)
writeStack(prefix, frames) ==
    IF frames = <<>> THEN ""
    ELSE prefix \o Where(Head(frames)) \o "> " \o String(Head(frames))
                \o writeStack(prefix, Tail(frames))

pushInclude(d, name) ==
    IF SlicesContains(d.includeStack, name) THEN [d |-> d, ok |-> FALSE]
    ELSE [d |-> [d EXCEPT !.includeStack = Append(d.includeStack, name)], ok |-> TRUE]

\* A popInclude that leaves the Include Stack as it is.
popIncludeKeeps(d) == d

popInclude(d) ==
    IF Len(d.includeStack) = 0 THEN d
    ELSE [d EXCEPT !.includeStack = SubSeq(d.includeStack, 1, Len(d.includeStack) - 1)]

RECURSIVE JoinArrow(_)
JoinArrow(names) ==
    IF names = <<>> THEN "" ELSE Head(names) \o " -> " \o JoinArrow(Tail(names))

\* An includeCycle that renders the Include Stack without the repeated name.
includeCycleStackOnly(d, next) ==
    TrimSuffix(JoinArrow(d.includeStack), " -> ")

\* ExpandingDecoder.includeCycle: every name of the Include Stack followed
\* by " -> ", then next.
includeCycle(d, next) == JoinArrow(d.includeStack) \o next

\* A template: decl is the embedded Expanded (the define expression).
makeTemplate(decl) ==
    LET c    == CutNL(decl.Body)
        f    == cutField(c.before)
        name == f.before
    IN  IF name = ""
        THEN [ok |-> FALSE, msg |-> "define: missing name argument"]
        ELSE IF ContainsAny(name, {" ", "\r", "\f"})
        THEN [ok |-> FALSE,
              msg |-> "define: name contains invalid characters: " \o Quote(name)]
        ELSE [ok |-> TRUE, msg |-> "",
              t |-> [decl |-> decl, name |-> name, params |-> Fields(f.after),
                     body |-> c.after]]

\* A define that ignores a second define of a name without an error.
defineSilent(d, expr) ==
    LET m == makeTemplate(expr)
    IN  IF ~m.ok THEN [d |-> d, err |-> m.msg]
        ELSE IF m.t.name \in DOMAIN d.defs
        THEN [d |-> d, err |-> ""]
        ELSE [d |-> [d EXCEPT !.defs =
                        [n \in DOMAIN d.defs \cup {m.t.name} |->
                            IF n = m.t.name THEN m.t ELSE d.defs[n]]],
              err |-> ""]

\* A define that replaces an existing template instead of rejecting it.
defineOverwrite(d, expr) ==
    LET m == makeTemplate(expr)
    IN  IF ~m.ok THEN [d |-> d, err |-> m.msg]
        ELSE [d |-> [d EXCEPT !.defs =
                        [n \in DOMAIN d.defs \cup {m.t.name} |->
                            IF n = m.t.name THEN m.t ELSE d.defs[n]]],
              err |-> ""]

\* ExpandingDecoder.define
define(d, expr) ==
    LET m == makeTemplate(expr)
    IN  IF ~m.ok THEN [d |-> d, err |-> m.msg]
        ELSE IF m.t.name \in DOMAIN d.defs
        THEN [d |-> d,
              err |-> "template " \o Quote(m.t.name) \o " redefined; previous define: "
                      \o d.defs[m.t.name].decl.File \o ":"
                      \o ToString(d.defs[m.t.name].decl.Line)]
        ELSE [d |-> [d EXCEPT !.defs =
                        [n \in DOMAIN d.defs \cup {m.t.name} |->
                            IF n = m.t.name THEN m.t ELSE d.defs[n]]],
              err |-> ""]

\* What expand and expandTemplate return: the engine, the *Expanded (has is
\* FALSE for nil) and the error.
Yield(d, expr) == [d |-> d, has |-> TRUE, result |-> expr, err |-> Nil]

Handled(d) == [d |-> d, has |-> FALSE, result |-> ZeroExpanded, err |-> Nil]

Fail(d, err) == [d |-> d, has |-> FALSE, result |-> ZeroExpanded, err |-> err]

\* A pass-through that normalises the argument text.
passThroughTrimmed(d, expr) ==
    Yield(d, [expr EXCEPT !.Body = TrimSpace(@), !.Stack = framesCopy(d.callStack)])

\* The pass-through of expand: no matching template, or an empty one.
passThrough(d, expr) == Yield(d, [expr EXCEPT !.Stack = framesCopy(d.callStack)])

\* An include that leaves the Include Stack as it is when the file cannot
\* be opened.
includeOpenedNoPop(d, expr, full, f) ==
    IF ~f.ok
    THEN Fail(d, ExpressionError(expr, f.msg))
    ELSE Handled([d EXCEPT !.decoderStack =
             Append(@, [dec |-> NewDecoder(f.text), file |-> full])])

\* An include that reads the included file after the including one.
includeOpenedLast(d, expr, full, f) ==
    IF ~f.ok
    THEN Fail(popInclude(d), ExpressionError(expr, f.msg))
    ELSE Handled([d EXCEPT !.decoderStack =
             <<[dec |-> NewDecoder(f.text), file |-> full]>> \o @])

\* The include case of expand after d.fsys.Open(full) has returned f.
includeOpened(d, expr, full, f) ==
    IF ~f.ok
    THEN Fail(popInclude(d), ExpressionError(expr, f.msg))
    ELSE Handled([d EXCEPT !.decoderStack =
             Append(@, [dec |-> NewDecoder(f.text), file |-> full])])

\* An include that opens the file under the prefix given to SetRoot.
includePushedRooted(d, expr, full, pi) ==
    IF ~pi.ok
    THEN Fail(d, ExpressionError(expr,
             "include cycle detected: " \o includeCycle(d, full)))
    ELSE includeOpened([pi.d EXCEPT !.hist.opened = Append(@, filePath(d, full))],
                       expr, full, Open(d.fsys, filePath(d, full)))

\* The include case after d.pushInclude(full) has returned pi.
includePushed(d, expr, full, pi) ==
    IF ~pi.ok
    THEN Fail(d, ExpressionError(expr,
             "include cycle detected: " \o includeCycle(d, full)))
    ELSE includeOpened([pi.d EXCEPT !.hist.opened = Append(@, full)], expr, full,
                       Open(d.fsys, full))

\* An include that accepts a path that carries the extension.
includeNamedAnySuffix(d, expr, includePath) ==
    IF includePath = ""
    THEN Fail(d, ExpressionError(expr, "include: missing filename"))
    ELSE IF ContainsChar(includePath, "/")
    THEN Fail(d, ExpressionError(expr, "include: path " \o Quote(includePath)
             \o " contains '/'; only root-level includes are allowed"))
    ELSE includePushed(d, expr, includePath \o ".linebased",
                       pushInclude(d, includePath \o ".linebased"))

\* The include case after includePath has been taken from the arguments.
includeNamed(d, expr, includePath) ==
    IF includePath = ""
    THEN Fail(d, ExpressionError(expr, "include: missing filename"))
    ELSE IF ContainsChar(includePath, "/")
    THEN Fail(d, ExpressionError(expr, "include: path " \o Quote(includePath)
             \o " contains '/'; only root-level includes are allowed"))
    ELSE IF HasSuffix(includePath, ".linebased")
    THEN Fail(d, ExpressionError(expr, "include: path " \o Quote(includePath)
             \o " has .linebased extension; the extension is not required and will be added automatically"))
    ELSE includePushed(d, expr, includePath \o ".linebased",
                       pushInclude(d, includePath \o ".linebased"))

\* The include case of expand.
include(d, expr) ==
    includeNamed([d EXCEPT !.hist.includes = Append(@,
                     [site |-> expr,
                      path |-> ArgsAt(ParseArgs(expr.Body, 1), 0) \o ".linebased",
                      stack |-> d.includeStack,
                      decoders |-> d.decoderStack,
                      opened |-> Len(d.hist.opened),
                      depth |-> Len(d.callStack.frames)])],
                 expr, ArgsAt(ParseArgs(expr.Body, 1), 0))

\* The substitution of one body expression: Name first, then Body, sharing
\* unknownParam.
substitute(expr, params, args) ==
    LET n == Expand(expr.Name, "", params, args)
        b == Expand(expr.Body, n.unknown, params, args)
    IN  [expr |-> [expr EXCEPT !.Name = n.out, !.Body = b.out], unknown |-> b.unknown]

\* The end of expandTemplate: the first expression is returned, the others
\* are appended to d.pending.
finish(d, expanded) ==
    IF Len(expanded) = 0 THEN Handled(d)
    ELSE Yield([d EXCEPT !.pending = @ \o Tail(expanded)], Head(expanded))

RECURSIVE expand(_, _)
RECURSIVE expandTemplate(_, _, _)
RECURSIVE expandBody(_, _, _, _, _, _)

\* An expandTemplate that gives every result its own Call Stack.
withStackAlways(e) == [e.result EXCEPT !.Stack = framesCopy(e.d.callStack)]

\* expandTemplate gives a result of d.expand the Call Stack, unless a nested
\* expansion has set it.
withStack(e) ==
    IF Len(e.result.Stack) = 0
    THEN [e.result EXCEPT !.Stack = framesCopy(e.d.callStack)]
    ELSE e.result

\* A body loop that, when d.expand fails, returns the results collected so
\* far in place of the error.
expandBodyExpandedYields(t, callsite, args, r, expanded, e) ==
    IF e.err # Nil THEN finish(e.d, expanded)
    ELSE IF e.has
    THEN expandBody(e.d, t, callsite, args, r.d, Append(expanded, withStack(e)))
    ELSE expandBody(e.d, t, callsite, args, r.d, expanded)

\* The body loop of expandTemplate after d.expand has returned e: r is what
\* the body's Decoder returned, expanded the results collected so far.
expandBodyExpanded(t, callsite, args, r, expanded, e) ==
    IF e.err # Nil THEN Fail(e.d, e.err)
    ELSE IF e.has
    THEN expandBody(e.d, t, callsite, args, r.d, Append(expanded, withStack(e)))
    ELSE expandBody(e.d, t, callsite, args, r.d, expanded)

\* A body loop that lets a define of a body through to expand.
expandBodySubstitutedDefines(d, t, callsite, args, r, expanded, s) ==
    IF s.unknown # ""
    THEN Fail(d, ExpressionError(t.decl,
             "unknown parameter reference: " \o Quote(s.unknown)))
    ELSE expandBodyExpanded(t, callsite, args, r, expanded, expand(d, s.expr))

\* A body loop that locates the unknown-parameter error at the call.
expandBodySubstitutedAtCall(d, t, callsite, args, r, expanded, s) ==
    IF s.unknown # ""
    THEN Fail(d, ExpressionError(callsite,
             "unknown parameter reference: " \o Quote(s.unknown)))
    ELSE IF s.expr.Name = "define"
    THEN Fail(d, ExpressionError(callsite,
             "expansion of " \o Quote(t.name)
             \o " contains illegal nested define: " \o Quote(String(s.expr))))
    ELSE expandBodyExpanded(t, callsite, args, r, expanded, expand(d, s.expr))

\* The body loop after the substitution s of the expression read.
expandBodySubstituted(d, t, callsite, args, r, expanded, s) ==
    IF s.unknown # ""
    THEN Fail(d, ExpressionError(t.decl,
             "unknown parameter reference: " \o Quote(s.unknown)))
    ELSE IF s.expr.Name = "define"
    THEN Fail(d, ExpressionError(callsite,
             "expansion of " \o Quote(t.name)
             \o " contains illegal nested define: " \o Quote(String(s.expr))))
    ELSE expandBodyExpanded(t, callsite, args, r, expanded, expand(d, s.expr))

\* The body loop after the body's Decoder has returned r.
expandBodyRead(d, t, callsite, args, r, expanded) ==
    IF r.err = EOF THEN finish(d, expanded)
    ELSE IF r.err # Nil
    THEN Fail(d, ExpressionError(
             [ZeroExpanded EXCEPT !.Line = r.err.line, !.File = t.decl.File],
             r.err.msg))
    ELSE expandBodySubstituted(d, t, callsite, args, r, expanded,
             substitute([Line |-> r.expr.Line, Comment |-> r.expr.Comment,
                         Name |-> r.expr.Name, Body |-> r.expr.Body,
                         File |-> t.decl.File, Stack |-> <<>>], t.params, args))

\* The loop of expandTemplate over the expressions of the template's body:
\* dec is the body's Decoder, expanded the results collected so far.
expandBody(d, t, callsite, args, dec, expanded) ==
    expandBodyRead([d EXCEPT !.hist.reads = @ + 1], t, callsite, args,
                   DecoderDecode(dec), expanded)

\* defer d.callStack.pop()
deferredPop(res) == [res EXCEPT !.d.callStack = pop(@)]

\* expandTemplate after ParseArgs.
expandTemplateArgs(d, t, callsite, args) ==
    IF Len(args) # Len(t.params)
    THEN Fail(d, ExpressionError(callsite,
             "template " \o Quote(t.name) \o " expects "
             \o ToString(Len(t.params)) \o " arguments, got "
             \o ToString(Len(args))))
    ELSE expandBody(d, t, callsite, args, NewDecoder(t.body), <<>>)

\* expandTemplate after d.callStack.push(callsite) has returned p; active is
\* the set of the names that were on the Call Stack before.
expandTemplatePushed(d, t, callsite, p, active) ==
    IF ~p.initial
    THEN Fail([d EXCEPT !.callStack = p.s,
                        !.hist.calls = Append(@,
                            [site |-> callsite, active |-> active,
                             defs |-> DOMAIN d.defs, reads |-> d.hist.reads])],
              ExpressionError(callsite,
                  TrimSuffix("recursion detected in template " \o callsite.Name
                             \o ":\n" \o writeStack("    ", p.s.frames), "\n")))
    ELSE deferredPop(expandTemplateArgs(
             [d EXCEPT !.callStack = p.s,
                       !.hist.calls = Append(@,
                           [site |-> callsite, active |-> active,
                            defs |-> DOMAIN d.defs, reads |-> d.hist.reads])],
             t, callsite, ParseArgs(callsite.Body, Len(t.params))))

\* expandTemplate after callsite.Stack has been set.
expandTemplateCall(d, t, callsite) ==
    IF Len(d.callStack.frames) >= MaxDepth THEN Fail(d, Overflow)
    ELSE expandTemplatePushed(d, t, callsite, push(d.callStack, callsite),
             {d.callStack.frames[k].Name : k \in 1..Len(d.callStack.frames)})

expandTemplate(d, t, callsite) ==
    expandTemplateCall(d, t, [callsite EXCEPT !.Stack = framesCopy(d.callStack)])

\* The define case of expand, r what d.define returned.
defined(d, expr, r) ==
    IF r.err # ""
    THEN Fail([d EXCEPT !.hist.defines = Append(@,
                   [site |-> expr, known |-> DOMAIN d.defs,
                    depth |-> Len(d.callStack.frames)])],
              ExpressionError(expr, r.err))
    ELSE Handled([r.d EXCEPT !.hist.defines = Append(@,
                     [site |-> expr, known |-> DOMAIN d.defs,
                      depth |-> Len(d.callStack.frames)])])

\* An expand that returns no blank expression of a template body.
expandDropsBlanks(d, expr) ==
    CASE expr.Name = "define" -> defined(d, expr, define(d, expr))
      [] expr.Name = "include" -> include(d, expr)
      [] expr.Name = "" ->
            IF d.callStack.frames # <<>> THEN Handled(d) ELSE Yield(d, expr)
      [] OTHER ->
            IF expr.Name \notin DOMAIN d.defs \/ d.defs[expr.Name].body = ""
            THEN passThrough(d, expr)
            ELSE expandTemplate(d, d.defs[expr.Name], expr)

\* An expand that expands a template whose body is empty like any other.
expandEmptyBodies(d, expr) ==
    CASE expr.Name = "define" -> defined(d, expr, define(d, expr))
      [] expr.Name = "include" -> include(d, expr)
      [] expr.Name = "" -> Yield(d, expr)
      [] OTHER ->
            IF expr.Name \notin DOMAIN d.defs
            THEN passThrough(d, expr)
            ELSE expandTemplate(d, d.defs[expr.Name], expr)

expand(d, expr) ==
    CASE expr.Name = "define" -> defined(d, expr, define(d, expr))
      [] expr.Name = "include" -> include(d, expr)
      [] expr.Name = "" -> Yield(d, expr)
      [] OTHER ->
            IF expr.Name \notin DOMAIN d.defs \/ d.defs[expr.Name].body = ""
            THEN passThrough(d, expr)
            ELSE expandTemplate(d, d.defs[expr.Name], expr)

RECURSIVE DecodeLoop(_)

\* The loop of Decode after d.expand has returned e.
DecodeExpanded(e) ==
    IF e.err # Nil
    THEN [d |-> [e.d EXCEPT !.err = e.err], expr |-> ZeroExpanded, err |-> e.err]
    ELSE IF e.has THEN [d |-> e.d, expr |-> e.result, err |-> Nil]
    ELSE DecodeLoop(e.d)

\* Decode returns err, having stored it in d.err.
DecodeFailed(d, err) ==
    [d |-> [d EXCEPT !.err = err], expr |-> ZeroExpanded, err |-> err]

\* A Decode that returns io.EOF at the end of the first file that ends.
DecodeReadStops(d, file, r) ==
    IF r.err = EOF
    THEN DecodeFailed([d EXCEPT !.hist.reads = @ + 1], EOF)
    ELSE IF r.err # Nil
    THEN DecodeFailed(
             [d EXCEPT !.decoderStack[Len(d.decoderStack)].dec = r.d,
                       !.hist.reads = @ + 1],
             ExpressionError(
                 [ZeroExpanded EXCEPT !.Line = r.err.line, !.File = filePath(d, file)],
                 r.err.msg))
    ELSE DecodeExpanded(expand(
             [d EXCEPT !.decoderStack[Len(d.decoderStack)].dec = r.d,
                       !.hist.reads = @ + 1],
             [Line |-> r.expr.Line, Comment |-> r.expr.Comment,
              Name |-> r.expr.Name, Body |-> r.expr.Body,
              File |-> filePath(d, file), Stack |-> <<>>]))

\* The loop of Decode after the Decoder on top of the Decoder Stack, the one
\* of file, has returned r.
DecodeRead(d, file, r) ==
    IF r.err = EOF
    THEN DecodeLoop(popInclude(
             [d EXCEPT !.decoderStack = SubSeq(@, 1, Len(@) - 1),
                       !.hist.reads = @ + 1]))
    ELSE IF r.err # Nil
    THEN DecodeFailed(
             [d EXCEPT !.decoderStack[Len(d.decoderStack)].dec = r.d,
                       !.hist.reads = @ + 1],
             ExpressionError(
                 [ZeroExpanded EXCEPT !.Line = r.err.line, !.File = filePath(d, file)],
                 r.err.msg))
    ELSE DecodeExpanded(expand(
             [d EXCEPT !.decoderStack[Len(d.decoderStack)].dec = r.d,
                       !.hist.reads = @ + 1],
             [Line |-> r.expr.Line, Comment |-> r.expr.Comment,
              Name |-> r.expr.Name, Body |-> r.expr.Body,
              File |-> filePath(d, file), Stack |-> <<>>]))

\* The loop of ExpandingDecoder.Decode.
DecodeLoop(d) ==
    IF Len(d.pending) > 0
    THEN [d |-> [d EXCEPT !.pending = Tail(@)], expr |-> Head(d.pending), err |-> Nil]
    ELSE IF Len(d.decoderStack) = 0
    THEN DecodeFailed(d, EOF)
    ELSE DecodeRead(d, d.decoderStack[Len(d.decoderStack)].file,
                    DecoderDecode(d.decoderStack[Len(d.decoderStack)].dec))

\* A Decode that does not look at the sticky error first.
DecodeUnsticky(d) == DecodeLoop(d)

\* ExpandingDecoder.Decode
Decode(d) ==
    IF d.err # Nil THEN [d |-> d, expr |-> ZeroExpanded, err |-> d.err]
    ELSE DecodeLoop(d)

(***************************************************************************)
(* The scripts the model runs.  A script is the concatenation of at most   *)
(* MaxLines expressions taken from a menu; four kinds of entry file are    *)
(* built that way, next to the fixed files they include.                   *)
(***************************************************************************)

\* The number of menu expressions in an entry file.
MaxLines == 2

\* The number of Decode calls followed after the sticky error is set.
MaxRepeats == 2

LibText ==
    "define greet name\n\techo Hello, $name!\n"
    \o "define in\n\ta\n\tb\n"
    \o "define out x y\n\tfirst $x\n\tin\n\tlast ${y}\n"
    \o "define rec\n\trec\n"
    \o "define ping\n\tpong\n"
    \o "define pong\n\tping\n"
    \o "define late\n\tin\n\trec\n"
    \o "define unk p\n\techo $q\n"
    \o "define mk n\n\t$n x\n"

\* More templates: an unknown reference in a name, a literal define in a
\* body, and a template with no body.
Lib2Text ==
    "define unk2 p\n\tok $p\n\t${q} x\n"
    \o "define lit\n\tdefine inner\n"
    \o "define nop p\n"
    \o "define wrap\n\tnop\n\techo in wrap\n"
    \o "define inc\n\tinclude sub\n\tafter\n"

\* Calls of the templates of lib2.linebased.
Template2Menu ==
    {"unk2 1\n", "lit\n", "nop\n", "nop 1 2\n", "wrap\n", "inc\n", "echo hi\n"}

\* Calls of the templates of lib.linebased, and what may lie between them.
TemplateMenu ==
    {"greet Alice\n", "greet\n", "out 1 2 3\n", "out 1\n", "in\n", "rec\n",
     "ping\n", "late\n", "unk 1\n", "mk define\n", "echo hi\n",
     "define a\n\tzzz\n", "define in\n\tzzz\n"}

\* What brings the templates in: the library, alone or followed by a call.
Preludes == {"include lib\n", "include lib\nin\n"}

\* Expressions of scripts with no define and no include.
PlainMenu ==
    {"echo hi\n", "\n", "# c\n", " bad\n", "\tx\n", "sql q\n\tSELECT\n",
     "greet  Alice \n", "x", "#t"}

\* Includes, valid and invalid.
IncludeMenu ==
    {"include lib\n", "include cyc\n", "include sub\n", "include nofile\n",
     "include a/b\n", "include\n", "include lib.linebased\n", "include main\n",
     "echo hi\n", "in\n"}

Scripts(menu) == UNION {[1..k -> menu] : k \in 0..MaxLines}

RECURSIVE Concat(_)
Concat(lines) == IF lines = <<>> THEN "" ELSE Head(lines) \o Concat(Tail(lines))

Files(main) ==
    [n \in {"main.linebased", "lib.linebased", "lib2.linebased", "cyc.linebased",
             "sub.linebased"} |->
        CASE n = "main.linebased" -> main
          [] n = "lib.linebased"  -> LibText
          [] n = "lib2.linebased" -> Lib2Text
          [] n = "cyc.linebased"  -> "include main\n"
          [] n = "sub.linebased"  -> "s1\ninclude lib\nin\n"]

\* The filesystem of TestExpandInclude/cycle.
CycleTestFiles ==
    [n \in {"main.lb", "other.lb"} |->
        IF n = "main.lb" THEN "include other.lb\n" ELSE "include main.lb\n"]

\* The runs: an entry file name and a filesystem.
Runs ==
    {[entry |-> "main.linebased", fsys |-> Files(p \o Concat(l))] :
        p \in Preludes, l \in Scripts(TemplateMenu)}
    \cup {[entry |-> "main.linebased", fsys |-> Files("include lib2\n" \o Concat(l))] :
        l \in Scripts(Template2Menu)}
    \cup {[entry |-> "main.linebased", fsys |-> Files(Concat(l))] :
        l \in Scripts(PlainMenu)}
    \cup {[entry |-> "main.linebased", fsys |-> Files(Concat(l))] :
        l \in Scripts(IncludeMenu)}
    \cup {[entry |-> "main.lb", fsys |-> CycleTestFiles],
          [entry |-> "nofile.linebased", fsys |-> CycleTestFiles]}

(***************************************************************************)
(* The state machine: an ExpandingDecoder and its caller.                  *)
(*   entry    the name given to NewExpandingDecoder;                       *)
(*   d        the ExpandingDecoder;                                        *)
(*   ret      what the last Decode call returned;                          *)
(*   out      the expressions returned so far, in order;                   *)
(*   repeats  the number of Decode calls made after d.err was set.         *)
(***************************************************************************)
VARIABLES entry, d, ret, out, repeats, text, decoder, results, twin, twinRet,
          argN, argList, argAt, doc

vars == <<entry, d, ret, out, repeats, text, decoder, results, twin, twinRet,
          argN, argList, argAt, doc>>

\* The variables of the callers of ParseArgs and of the LSP document, and
\* their values while no such caller runs.
otherVars == <<argN, argList, argAt, doc>>

NoArgs == [called |-> FALSE, list |-> <<>>]

NoArg == [called |-> FALSE, i |-> 0, s |-> ""]

NoDocument == [uri |-> "", opened |-> FALSE]

OthersIdle == argN = 0 /\ argList = NoArgs /\ argAt = NoArg /\ doc = NoDocument

Init ==
    \E run \in Runs :
        /\ entry = run.entry
        /\ d = NewExpandingDecoder(run.entry, run.fsys)
        /\ ret = [expr |-> ZeroExpanded, err |-> Nil]
        /\ out = <<>>
        /\ repeats = 0
        /\ text = ""
        /\ decoder = NewDecoder("")
        /\ results = <<>>
        /\ twin = NewExpandingDecoder(run.entry, run.fsys)
        /\ twinRet = [expr |-> ZeroExpanded, err |-> Nil]
        /\ OthersIdle

\* The calls the model follows: all of them up to the sticky error, and
\* MaxRepeats more.
CanCall == d.err = Nil \/ repeats < MaxRepeats

\* The caller calls d.Decode().
DecodeCall ==
    /\ CanCall
    /\ \E r \in {Decode(d)} :
           /\ d' = r.d
           /\ ret' = [expr |-> r.expr, err |-> r.err]
           /\ out' = IF r.err = Nil THEN Append(out, r.expr) ELSE out
           /\ repeats' = IF d.err # Nil THEN repeats + 1 ELSE repeats
    /\ UNCHANGED <<entry, text, decoder, results, twin, twinRet, otherVars>>

Next == DecodeCall

Spec == Init /\ [][Next]_vars


\* The same machine, its caller calling Decode again and again: weak
\* fairness of Next, WF_vars(Next), written out.  A Decode call always
\* changes out, d.err or repeats, so ENABLED <<Next>>_vars is CanCall.
LiveSpec == Spec /\ ([]<>(~CanCall) \/ []<><<Next>>_vars)

(***************************************************************************)
(* A second machine: one Decoder and a caller that, like parseFile of      *)
(* lblsp, goes on calling Decode after a SyntaxError, up to io.EOF.        *)
(*   text     the input given to NewDecoder;                               *)
(*   decoder  the Decoder;                                                 *)
(*   results  what the Decode calls returned so far, in order.             *)
(***************************************************************************)

\* The number of menu lines in the input of the Decoder.
MaxRawLines == 3

\* Lines of input: commands, with continuation lines or without a final
\* newline, blank lines, comments, and lines that start with white space.
RawMenu ==
    {"echo hi\n", "\n", "# c\n", " bad\n", "\tx\n", "\t\ty\n",
     "sql q\n\tSELECT\n", "x", "#t"}

RawTexts == {Concat(l) : l \in UNION {[1..k -> RawMenu] : k \in 0..MaxRawLines}}

DecoderInit ==
    /\ entry = "main.linebased"
    /\ d = NewExpandingDecoder("main.linebased", Files(""))
    /\ ret = [expr |-> ZeroExpanded, err |-> Nil]
    /\ out = <<>>
    /\ repeats = 0
    /\ text \in RawTexts
    /\ decoder = NewDecoder(text)
    /\ results = <<>>
    /\ twin = NewExpandingDecoder("main.linebased", Files(""))
    /\ twinRet = [expr |-> ZeroExpanded, err |-> Nil]
    /\ OthersIdle

\* The caller calls decoder.Decode(), unless the last call returned io.EOF.
RawDecode ==
    /\ \A i \in {Len(results)} \ {0} : results[i].err # EOF
    /\ \E r \in {DecoderDecode(decoder)} :
           /\ decoder' = r.d
           /\ results' = Append(results, [expr |-> r.expr, err |-> r.err])
    /\ UNCHANGED <<entry, d, ret, out, repeats, text, twin, twinRet, otherVars>>

DecoderNext == RawDecode

DecoderSpec == DecoderInit /\ [][DecoderNext]_vars

(***************************************************************************)
(* A third machine: two ExpandingDecoders made for the same entry file and *)
(* filesystem, d and twin, called in step; the caller of d may call        *)
(* d.SetRoot, twin keeps the empty prefix.                                 *)
(*   twin     the second ExpandingDecoder;                                 *)
(*   twinRet  what its last Decode call returned.                          *)
(***************************************************************************)

\* The prefixes given to SetRoot.
Roots == {"pkg/", "a/b"}

\* The runs of the two decoders: includes, valid and invalid, and calls of
\* the templates of lib.linebased.
RootRuns ==
    {[entry |-> "main.linebased", fsys |-> Files(Concat(l))] :
        l \in Scripts(IncludeMenu)}
    \cup {[entry |-> "main.linebased", fsys |-> Files("include lib\n" \o Concat(l))] :
        l \in [1..1 -> TemplateMenu]}
    \cup {[entry |-> "nofile.linebased", fsys |-> CycleTestFiles]}

RootInit ==
    \E run \in RootRuns :
        /\ entry = run.entry
        /\ d = NewExpandingDecoder(run.entry, run.fsys)
        /\ twin = NewExpandingDecoder(run.entry, run.fsys)
        /\ ret = [expr |-> ZeroExpanded, err |-> Nil]
        /\ twinRet = [expr |-> ZeroExpanded, err |-> Nil]
        /\ OthersIdle
        /\ out = <<>>
        /\ repeats = 0
        /\ text = ""
        /\ decoder = NewDecoder("")
        /\ results = <<>>

\* The caller calls d.SetRoot(root), once.
SetRootCall ==
    /\ d.root = ""
    /\ \E root \in Roots : d' = SetRoot(d, root)
    /\ UNCHANGED <<entry, ret, out, repeats, text, decoder, results, twin, twinRet,
                   otherVars>>

\* The callers call d.Decode() and twin.Decode().
DecodeBoth ==
    /\ CanCall
    /\ \E r \in {Decode(d)} : \E t \in {Decode(twin)} :
           /\ d' = r.d
           /\ ret' = [expr |-> r.expr, err |-> r.err]
           /\ out' = IF r.err = Nil THEN Append(out, r.expr) ELSE out
           /\ repeats' = IF d.err # Nil THEN repeats + 1 ELSE repeats
           /\ twin' = t.d
           /\ twinRet' = [expr |-> t.expr, err |-> t.err]
    /\ UNCHANGED <<entry, text, decoder, results, otherVars>>

RootNext == SetRootCall \/ DecodeBoth

RootSpec == RootInit /\ [][RootNext]_vars

(***************************************************************************)
(* The engine over a second library, lib3.linebased: templates with a      *)
(* parameter named twice and templates whose bodies hold blank lines and   *)
(* comment lines only.  The actions are those of the first machine.        *)
(***************************************************************************)
Lib3Text ==
    "define dup x y x\n\techo $x ${y}\n"
    \o "define quiet\n\t# note\n"
    \o "define blank\n\t\n"
    \o "define both\n\t# c\n\t\n\t# end\n"
    \o "define some\n\t\n\techo k\n"

\* Calls of the templates of lib3.linebased.
Template3Menu ==
    {"dup 1 2 3\n", "dup 1 2\n", "quiet\n", "blank\n", "both\n", "some\n", "echo hi\n"}

Files3(main) ==
    [f \in {"main.linebased", "lib3.linebased"} |->
        IF f = "main.linebased" THEN main ELSE Lib3Text]

Runs3 ==
    {[entry |-> "main.linebased", fsys |-> Files3("include lib3\n" \o Concat(l))] :
        l \in Scripts(Template3Menu)}

Lib3Init ==
    \E run \in Runs3 :
        /\ entry = run.entry
        /\ d = NewExpandingDecoder(run.entry, run.fsys)
        /\ ret = [expr |-> ZeroExpanded, err |-> Nil]
        /\ out = <<>>
        /\ repeats = 0
        /\ text = ""
        /\ decoder = NewDecoder("")
        /\ results = <<>>
        /\ twin = NewExpandingDecoder(run.entry, run.fsys)
        /\ twinRet = [expr |-> ZeroExpanded, err |-> Nil]
        /\ OthersIdle

Lib3Spec == Lib3Init /\ [][Next]_vars

(***************************************************************************)
(* A fourth machine: a caller of ParseArgs and Args.At.                    *)
(*   text     the string s given to ParseArgs;                                *)
(*   argN     the count given to ParseArgs;                                   *)
(*   argList  the Args returned, once ParseArgs was called;                   *)
(*   argAt    the index given to the last call of args.At and what it         *)
(*         returned.                                                       *)
(***************************************************************************)
MaxPieces == 4

MaxCount == 3

\* The strings given to ParseArgs: up to MaxPieces words and white space.
ArgPieces == {"a", "bc", " ", "\t", "\n"}

ArgTexts == {Concat(l) : l \in UNION {[1..k -> ArgPieces] : k \in 0..MaxPieces}}

\* The engine's variables while the other machines run.
EngineIdle ==
    /\ entry = "main.linebased"
    /\ d = NewExpandingDecoder("main.linebased", Files(""))
    /\ twin = NewExpandingDecoder("main.linebased", Files(""))
    /\ ret = [expr |-> ZeroExpanded, err |-> Nil]
    /\ twinRet = [expr |-> ZeroExpanded, err |-> Nil]
    /\ out = <<>>
    /\ repeats = 0
    /\ decoder = NewDecoder("")
    /\ results = <<>>

ArgsInit ==
    /\ EngineIdle
    /\ text \in ArgTexts
    /\ argN \in -1..MaxCount
    /\ argList = NoArgs
    /\ argAt = NoArg
    /\ doc = NoDocument

\* The caller calls ParseArgs(text, argN).
ParseArgsCall ==
    /\ ~argList.called
    /\ argList' = [called |-> TRUE, list |-> ParseArgs(text, argN)]
    /\ UNCHANGED <<entry, d, ret, out, repeats, text, decoder, results, twin, twinRet,
                   argN, argAt, doc>>

\* The caller calls args.At(i), once.
AtCall ==
    /\ argList.called
    /\ ~argAt.called
    /\ \E i \in -1..(Len(argList.list) + 1) :
           argAt' = [called |-> TRUE, i |-> i, s |-> ArgsAt(argList.list, i)]
    /\ UNCHANGED <<entry, d, ret, out, repeats, text, decoder, results, twin, twinRet,
                   argN, argList, doc>>

ArgsNext == ParseArgsCall \/ AtCall

ArgsSpec == ArgsInit /\ [][ArgsNext]_vars

(***************************************************************************)
(* The source order of an expression returned by the engine: the lines of  *)
(* the calls that enclose it, outermost first, then its own line.          *)
(***************************************************************************)
Path(e) == [k \in 1..Len(e.Stack) |-> e.Stack[k].Line] \o <<e.Line>>

\* The file of the top-level expression that produced e.
AnchorFile(e) == IF Len(e.Stack) = 0 THEN e.File ELSE e.Stack[1].File

\* p comes before q in the lexicographic order of line paths.
LexLess(p, q) ==
    \E k \in 1..Len(q) :
        /\ \A j \in 1..(k - 1) : j <= Len(p) /\ p[j] = q[j]
        /\ (k > Len(p) \/ p[k] < q[k])

(***************************************************************************)
(* C1. Once Decode has returned an error other than end-of-input, every    *)
(* later Decode call returns that same error with a zero Expanded, returns *)
(* nothing of the Pending Queue and reads no Tokenizer.                    *)
(***************************************************************************)
C1_StickyError ==
    [][ /\ (ret'.err # Nil /\ ret'.err # EOF) => d'.err = ret'.err
        /\ (d.err # Nil /\ d.err # EOF) =>
              /\ ret'.err = d.err
              /\ ret'.expr = ZeroExpanded
              /\ out' = out
              /\ d'.pending = d.pending
              /\ d'.decoderStack = d.decoderStack
              /\ d'.hist.reads = d.hist.reads ]_vars

\* A later call was made on a decoder poisoned while expressions were pending.
C1_Witness ==
    /\ repeats >= 1
    /\ d.err.kind = "expr"
    /\ ret.err = d.err
    /\ Len(d.pending) > 0

(***************************************************************************)
(* C2. Every Decode call returns, and repeated Decode calls reach          *)
(* end-of-input or an error after finitely many calls, also when templates *)
(* call themselves or each other and files include each other cyclically.  *)
(***************************************************************************)
C2_Terminates == [](ret.err.kind # "overflow") /\ <>(d.err # Nil)

\* A run with a template calling itself through another one has ended.
C2_Witness ==
    /\ d.err # Nil
    /\ repeats >= 1
    /\ \E k \in 1..Len(d.hist.calls) :
          /\ d.hist.calls[k].site.Name \in d.hist.calls[k].active
          /\ Cardinality(d.hist.calls[k].active) >= 2

(***************************************************************************)
(* C3. The expressions returned by successive Decode calls are in          *)
(* depth-first source order: of two expressions that stem from the entry   *)
(* file, the one returned first has the smaller path of lines.             *)
(***************************************************************************)
C3_DepthFirstOrder ==
    \A i, j \in 1..Len(out) :
        (/\ i < j
         /\ AnchorFile(out[i]) = filePath(d, entry)
         /\ AnchorFile(out[j]) = filePath(d, entry))
        => LexLess(Path(out[i]), Path(out[j]))

(***************************************************************************)
(* C4. A template call classified while a call of the same template name   *)
(* is active on the Call Stack, directly or through any chain of other     *)
(* templates, is not expanded: Decode returns the 'recursion detected'     *)
(* error located at that call, and no line is read after the call.         *)
(***************************************************************************)
C4_RecursionDetected ==
    \A k \in 1..Len(d.hist.calls) :
        LET c == d.hist.calls[k]
        IN  c.site.Name \in c.active =>
                /\ k = Len(d.hist.calls)
                /\ d.err.kind = "expr"
                /\ ret.err = d.err
                /\ HasPrefix(d.err.msg,
                       "recursion detected in template " \o c.site.Name \o ":")
                /\ d.err.at = c.site
                /\ d.hist.reads = c.reads

\* A call reached its own template through another template and was refused.
C4_Witness ==
    /\ d.err.kind = "expr"
    /\ \E k \in 1..Len(d.hist.calls) :
          /\ d.hist.calls[k].site.Name \in d.hist.calls[k].active
          /\ d.hist.calls[k].active = {"ping", "pong"}
          /\ HasPrefix(d.err.msg, "recursion detected in template ping:")

(***************************************************************************)
(* C5. An include of a file that is on the Include Stack ends the decoding *)
(* with the 'include cycle detected' error, whose chain runs from the      *)
(* entry file to the repeated name, joined by " -> "; the repeated file is *)
(* not opened again.                                                       *)
(***************************************************************************)
RECURSIVE ChainText(_)
ChainText(names) ==
    IF Len(names) = 1 THEN names[1]
    ELSE ChainText(SubSeq(names, 1, Len(names) - 1)) \o " -> " \o names[Len(names)]

C5_IncludeCycle ==
    \A k \in 1..Len(d.hist.includes) :
        LET inc == d.hist.includes[k]
        IN  (\E j \in 1..Len(inc.stack) : inc.stack[j] = inc.path) =>
                /\ k = Len(d.hist.includes)
                /\ inc.stack[1] = entry
                /\ d.err.kind = "expr"
                /\ ret.err = d.err
                /\ d.err.msg = "include cycle detected: "
                                   \o ChainText(Append(inc.stack, inc.path))
                /\ Len(d.hist.opened) = inc.opened
                /\ Cardinality({j \in 1..Len(d.hist.opened) :
                                   d.hist.opened[j] = inc.path}) = 1

\* main.linebased included cyc.linebased, which included main.linebased.
C5_Witness ==
    /\ entry = "main.linebased"
    /\ ret.err.kind = "expr"
    /\ ret.err.msg = "include cycle detected: main.linebased -> cyc.linebased -> main.linebased"
    /\ d.hist.opened = <<"main.linebased", "cyc.linebased">>

(***************************************************************************)
(* C6. With main.lb containing 'include other.lb' and other.lb containing  *)
(* 'include main.lb', decoding main.lb fails with the error text           *)
(* 'other.lb:1: include cycle detected: main.lb -> other.lb -> main.lb'.   *)
(***************************************************************************)
C6_CycleTestText ==
    (entry = "main.lb" /\ d.fsys = CycleTestFiles /\ d.err # Nil) =>
        ErrorText(d.err) =
            "other.lb:1: include cycle detected: main.lb -> other.lb -> main.lb"

(***************************************************************************)
(* C7. For a script with no expression named define or include, Decode     *)
(* returns the (line, comment, name, body) values the raw Decoder returns  *)
(* on the same text, each with an empty Stack, and both streams end the    *)
(* same way: end-of-input, or a syntax error at the same line.             *)
(***************************************************************************)

\* What repeated Decoder.Decode calls return up to the first error.
RECURSIVE RawStream(_, _)
RawStream(dec, exprs) ==
    LET r == DecoderDecode(dec)
    IN  IF r.err # Nil THEN [exprs |-> exprs, err |-> r.err]
        ELSE RawStream(r.d, Append(exprs, r.expr))

Plain(raw) ==
    \A i \in 1..Len(raw.exprs) : raw.exprs[i].Name \notin {"define", "include"}

Projected(e) ==
    [Line |-> e.Line, Comment |-> e.Comment, Name |-> e.Name, Body |-> e.Body]

C7_PassThrough ==
    entry \in DOMAIN d.fsys =>
        LET raw == RawStream(NewDecoder(d.fsys[entry]), <<>>)
        IN  Plain(raw) =>
                /\ Len(out) <= Len(raw.exprs)
                /\ \A i \in 1..Len(out) :
                      /\ Projected(out[i]) = raw.exprs[i]
                      /\ out[i].Stack = <<>>
                /\ d.err # Nil =>
                      /\ Len(out) = Len(raw.exprs)
                      /\ raw.err = EOF => d.err = EOF
                      /\ raw.err # EOF =>
                            /\ d.err.kind = "expr"
                            /\ d.err.at.Line = raw.err.line
                            /\ d.err.msg = raw.err.msg

\* A script of two plain expressions was decoded to its end.
C7_Witness ==
    /\ d.err = EOF
    /\ Len(out) = 2
    /\ out[1].Name = ""
    /\ out[2].Name = "sql"
    /\ \A i \in 1..Len(out) : out[i].Stack = <<>>
    /\ d.hist.includes = <<>>

\* A plain script ended in a syntax error after an expression was returned.
C7_WitnessSyntax ==
    /\ d.err.kind = "expr"
    /\ Len(out) = 1
    /\ d.hist.includes = <<>>
    /\ d.hist.calls = <<>>
    /\ d.defs = <<>>

(***************************************************************************)
(* Template calls, as the claims speak of them.                            *)
(***************************************************************************)

\* The calls written on a line of a file, outside every template body.
TopCalls == {k \in 1..Len(d.hist.calls) : d.hist.calls[k].site.Stack = <<>>}

\* All that the call at callsite site produced, nested calls included.
Emitted(site) == SelectSeq(out, LAMBDA e : Len(e.Stack) > 0 /\ e.Stack[1] = site)

\* What the call at callsite site produced from its own body expressions.
Direct(site) == SelectSeq(out, LAMBDA e : e.Stack = Append(site.Stack, site))

NamesBodies(es) == [i \in 1..Len(es) |-> <<es[i].Name, es[i].Body>>]

SameCall(k1, k2) ==
    /\ d.hist.calls[k1].site.Name = d.hist.calls[k2].site.Name
    /\ d.hist.calls[k1].site.Body = d.hist.calls[k2].site.Body

(***************************************************************************)
(* C8, as first stated.  Two calls of the same template with the same      *)
(* argument text at two places of one script produce the same sequence of  *)
(* names and bodies, whatever lies between the two calls.                  *)
(***************************************************************************)
C8_SameCallSameOutput ==
    d.err = EOF =>
        \A k1, k2 \in TopCalls :
            SameCall(k1, k2) =>
                NamesBodies(Emitted(d.hist.calls[k1].site))
                    = NamesBodies(Emitted(d.hist.calls[k2].site))

(***************************************************************************)
(* C8, amended.  Two calls of the same template with the same argument     *)
(* text on two lines of one script produce the same sequence of names and  *)
(* bodies, whatever lies between the two calls, provided no template is    *)
(* defined between them.                                                   *)
(***************************************************************************)
C8_SameRegistrySameOutput ==
    d.err = EOF =>
        \A k1, k2 \in TopCalls :
            (SameCall(k1, k2) /\ d.hist.calls[k1].defs = d.hist.calls[k2].defs) =>
                NamesBodies(Emitted(d.hist.calls[k1].site))
                    = NamesBodies(Emitted(d.hist.calls[k2].site))

\* The same call was made twice, an expression apart, and produced output.
C8_Witness ==
    /\ d.err = EOF
    /\ \E k1, k2 \in TopCalls :
          /\ SameCall(k1, k2)
          /\ d.hist.calls[k1].defs = d.hist.calls[k2].defs
          /\ d.hist.calls[k1].site.File = d.hist.calls[k2].site.File
          /\ d.hist.calls[k1].site.Line + 1 < d.hist.calls[k2].site.Line
          /\ Len(Emitted(d.hist.calls[k2].site)) = 2

(***************************************************************************)
(* Substitution, as the specification words it.                            *)
(***************************************************************************)

\* s after its first k whitespace-delimited words and the space after them.
RECURSIVE SkipWords(_, _)
SkipWords(s, k) ==
    LET t == TrimLeftSpace(s)
        i == IndexSpace(t)
    IN  IF k = 0 THEN t
        ELSE IF i < 0 THEN ""
        ELSE SkipWords(From(t, i), k - 1)

\* The n arguments of an argument text: n - 1 words, then all that remains
\* without its trailing newline.
SpecArgs(s, n) ==
    [i \in 1..n |-> IF i < n THEN Fields(s)[i]
                    ELSE TrimSuffix(SkipWords(s, n - 1), "\n")]

NameChar(c) == c \in Letters \cup Digits \cup {"_"}

\* s with every ${p} and $p, p a parameter, replaced by p's argument.
RECURSIVE SpecSubst(_, _, _)
SpecSubst(s, params, args) ==
    LET braced == {i \in 1..Len(params) : HasPrefix(s, "${" \o params[i] \o "}")}
        bare   == {i \in 1..Len(params) :
                      /\ HasPrefix(s, "$" \o params[i])
                      /\ \/ Len(s) = Len(params[i]) + 1
                         \/ ~NameChar(At(s, Len(params[i]) + 1))}
    IN  IF s = "" THEN ""
        ELSE IF braced # {}
        THEN LET i == CHOOSE i \in braced : TRUE
             IN  args[i] \o SpecSubst(From(s, Len(params[i]) + 3), params, args)
        ELSE IF bare # {}
        THEN LET i == CHOOSE i \in bare : TRUE
             IN  args[i] \o SpecSubst(From(s, Len(params[i]) + 1), params, args)
        ELSE At(s, 0) \o SpecSubst(From(s, 1), params, args)

\* The expressions of the body of the template called by call c, substituted,
\* without those that are themselves calls of a template that has a body
\* and without those named include, which the engine does not emit.
Expected(c) ==
    LET t    == d.defs[c.site.Name]
        args == SpecArgs(c.site.Body, Len(t.params))
        body == RawStream(NewDecoder(t.body), <<>>).exprs
        sub  == [i \in 1..Len(body) |->
                    [Line |-> body[i].Line,
                     Name |-> SpecSubst(body[i].Name, t.params, args),
                     Body |-> SpecSubst(body[i].Body, t.params, args)]]
    IN  SelectSeq(sub, LAMBDA e : /\ ~(e.Name \in c.defs /\ d.defs[e.Name].body # "")
                                  /\ e.Name # "include")

Range(es) == {es[i] : i \in 1..Len(es)}

LinesNamesBodies(es) ==
    [i \in 1..Len(es) |-> [Line |-> es[i].Line, Name |-> es[i].Name, Body |-> es[i].Body]]

(***************************************************************************)
(* C9. A call of an n-parameter template with n arguments emits the body   *)
(* expressions of the template with every $p and ${p}, in name and body,   *)
(* replaced by the argument at p's position, the last argument being all   *)
(* the remaining text without its trailing newline; `greet Alice` yields   *)
(* exactly "echo Hello, Alice!\n".  (The order of the expressions is C3's  *)
(* matter; here they are compared line by line.)                           *)
(***************************************************************************)
C9_Substitution ==
    /\ \A i \in 1..Len(out) :
          (/\ Len(out[i].Stack) = 1
           /\ out[i].Stack[1].Name = "greet"
           /\ out[i].Stack[1].Body = "Alice\n")
          => String(out[i]) = "echo Hello, Alice!\n"
    /\ d.err = EOF =>
          \A k \in 1..Len(d.hist.calls) :
              LET c == d.hist.calls[k]
              IN  Len(Fields(c.site.Body)) >= Len(d.defs[c.site.Name].params) =>
                      /\ Len(Direct(c.site)) = Len(Expected(c))
                      /\ Range(LinesNamesBodies(Direct(c.site))) = Range(Expected(c))

\* greet Alice and out 1 2 3 were both expanded.
C9_Witness ==
    /\ d.err = EOF
    /\ \E i \in 1..Len(out) :
          /\ Len(out[i].Stack) = 1
          /\ out[i].Stack[1].Name = "greet"
          /\ String(out[i]) = "echo Hello, Alice!\n"
    /\ \E i \in 1..Len(out) :
          /\ Len(out[i].Stack) = 1
          /\ out[i].Stack[1].Name = "out"
          /\ String(out[i]) = "last 2 3\n"

(***************************************************************************)
(* C10. A call of a template that declares n >= 1 parameters with k < n    *)
(* whitespace-delimited arguments, a call with no argument included, makes *)
(* Decode fail with 'template "<name>" expects n arguments, got k'.        *)
(***************************************************************************)
C10_TooFewArguments ==
    \A j \in 1..Len(d.hist.calls) :
        LET c == d.hist.calls[j]
            n == Len(d.defs[c.site.Name].params)
            k == Len(Fields(c.site.Body))
        IN  (n >= 1 /\ k < n /\ c.site.Name \notin c.active) =>
                /\ d.err.kind = "expr"
                /\ d.err.msg = "template \"" \o c.site.Name \o "\" expects "
                                  \o ToString(n) \o " arguments, got " \o ToString(k)

(***************************************************************************)
(* Templates and their bodies, as the claims speak of them.                *)
(***************************************************************************)

\* The name a define expression gives its template: the first word.
DefinedName(site) ==
    IF IndexSpace(TrimLeftSpace(site.Body)) < 0 THEN TrimLeftSpace(site.Body)
    ELSE Slice(TrimLeftSpace(site.Body), 0, IndexSpace(TrimLeftSpace(site.Body)))

\* The define expression that first defined name, e the engine.
DefSiteIn(e, name) ==
    e.hist.defines[CHOOSE k \in 1..Len(e.hist.defines) :
                      /\ DefinedName(e.hist.defines[k].site) = name
                      /\ \A j \in 1..(k - 1) :
                            DefinedName(e.hist.defines[j].site) # name].site

DefSite(name) == DefSiteIn(d, name)

\* The expressions of the body of the template called by call c.
BodyOf(c) == RawStream(NewDecoder(d.defs[c.site.Name].body), <<>>).exprs

RECURSIVE NameRun(_)
NameRun(s) == IF s # "" /\ NameChar(At(s, 0)) THEN 1 + NameRun(From(s, 1)) ELSE 0

\* The names x that s references as $x or ${x}.
RECURSIVE SpecRefs(_)
SpecRefs(s) ==
    IF s = "" THEN {}
    ELSE IF HasPrefix(s, "${")
    THEN LET j == IndexIn(s, {"}"}, 2)
         IN  IF j < 0 THEN {} ELSE {Slice(s, 2, j)} \cup SpecRefs(From(s, j + 1))
    ELSE IF HasPrefix(s, "$") /\ NameRun(From(s, 1)) > 0
    THEN {Slice(s, 1, 1 + NameRun(From(s, 1)))}
             \cup SpecRefs(From(s, 1 + NameRun(From(s, 1))))
    ELSE SpecRefs(From(s, 1))

\* The names that body expression e references and call c's template does
\* not declare.
Undeclared(c, e) ==
    (SpecRefs(e.Name) \cup SpecRefs(e.Body)) \ Range(d.defs[c.site.Name].params)

\* Call c is a call with enough arguments that the Call Stack accepted.
Accepted(c) ==
    /\ c.site.Name \notin c.active
    /\ Len(Fields(c.site.Body)) >= Len(d.defs[c.site.Name].params)

\* The name of body expression e of call c after substitution.
SubstName(c, e) ==
    SpecSubst(e.Name, d.defs[c.site.Name].params,
              SpecArgs(c.site.Body, Len(d.defs[c.site.Name].params)))

\* Expression i of body, the body of the template call c calls, is
\* reached: the ones before it are neither in error nor calls, defines or
\* includes.
Reached(c, body, i) ==
    \A j \in 1..(i - 1) :
        /\ Undeclared(c, body[j]) = {}
        /\ SubstName(c, body[j]) \notin c.defs \cup {"define", "include"}

\* Call c fails at the reference of expression e of its body to a name its
\* template does not declare.
UnknownReference(c, e) ==
    /\ d.err.kind = "expr"
    /\ ret.err = d.err
    /\ \E x \in Undeclared(c, e) :
          d.err.msg = "unknown parameter reference: \"" \o x \o "\""
    /\ \E site \in {DefSite(c.site.Name)} :
          /\ d.err.at.File = site.File
          /\ d.err.at.Line = site.Line
          /\ HasPrefix(ErrorText(d.err),
                 site.File \o ":" \o ToString(site.Line)
                 \o ": unknown parameter reference")
    /\ Direct(c.site) = <<>>

(***************************************************************************)
(* C11. If a body expression of a called template references $x or ${x},   *)
(* x not a declared parameter of the template, Decode returns the 'unknown *)
(* parameter reference' error, located at the file and line of the         *)
(* template's define expression and not at the call.                       *)
(***************************************************************************)
C11_UnknownParameter ==
    \A k \in 1..Len(d.hist.calls) :
        Accepted(d.hist.calls[k]) =>
            \E body \in {BodyOf(d.hist.calls[k])} :
                \A i \in 1..Len(body) :
                    (/\ Undeclared(d.hist.calls[k], body[i]) # {}
                     /\ Reached(d.hist.calls[k], body, i)) =>
                        UnknownReference(d.hist.calls[k], body[i])

\* unk2 was called: its second body expression names itself ${q}.
C11_Witness ==
    /\ d.err.kind = "expr"
    /\ d.err.msg = "unknown parameter reference: \"q\""
    /\ d.err.at.File = "lib2.linebased"
    /\ d.err.at.Line = 1
    /\ \E k \in 1..Len(d.hist.calls) :
          /\ d.hist.calls[k].site.Name = "unk2"
          /\ d.hist.calls[k].site.File = "main.linebased"

\* The parameters and the body a define expression writes.
DefinedParams(site) == Tail(Fields(Slice(site.Body, 0, IndexIn(site.Body, {"\n"}, 0))))

DefinedBody(site) == From(site.Body, IndexIn(site.Body, {"\n"}, 0) + 1)

\* Template t is the one the define expression site wrote.
WrittenBy(t, site) ==
    /\ t.decl.File = site.File
    /\ t.decl.Line = site.Line
    /\ t.params = DefinedParams(site)
    /\ t.body = DefinedBody(site)

\* The names that the define expressions of defines give, in order.
RECURSIVE DefinedNames(_)
DefinedNames(defines) ==
    IF defines = <<>> THEN <<>>
    ELSE <<DefinedName(Head(defines).site)>> \o DefinedNames(Tail(defines))

\* The place of the first n in names, 0 when there is none.
First(names, n) ==
    IF \E k \in 1..Len(names) : names[k] = n
    THEN CHOOSE k \in 1..Len(names) :
             names[k] = n /\ \A j \in 1..(k - 1) : names[j] # n
    ELSE 0

\* Every template of the registry of engine e is the one its first define
\* wrote, names the names its define expressions gave.
RegistryOfFirstDefines(e, names) ==
    \A n \in DOMAIN e.defs :
        /\ First(names, n) > 0
        /\ WrittenBy(e.defs[n], e.hist.defines[First(names, n)].site)

\* The error of engine e is that of the define expression site, first the
\* first define of its name.
Redefinition(e, site, first) ==
    /\ e.err.kind = "expr"
    /\ e.err.at = site
    /\ e.err.msg = "template \"" \o DefinedName(site) \o "\" redefined; previous define: "
                   \o first.File \o ":" \o ToString(first.Line)

\* A define of a name the registry of engine e knows is the last one, and
\* its error cites the first.
RedefinitionRejected(e, names) ==
    \A k \in 1..Len(names) :
        names[k] \in e.hist.defines[k].known =>
            /\ k = Len(names)
            /\ First(names, names[k]) < k
            /\ Redefinition(e, e.hist.defines[k].site,
                            e.hist.defines[First(names, names[k])].site)

(***************************************************************************)
(* C12. The Template Registry only grows: a name that maps to a template   *)
(* maps to that template, the one its first define expression wrote        *)
(* (params, body, file and line), after every later Decode call; a second  *)
(* define of the name, in the same file or an included one, makes Decode   *)
(* fail with a redefinition error citing the file and line of the first.   *)
(***************************************************************************)
C12_RegistryOnlyGrows ==
    [][/\ \A n \in DOMAIN d.defs : n \in DOMAIN d'.defs /\ d'.defs[n] = d.defs[n]
       /\ \E names \in {DefinedNames(d'.hist.defines)} :
              RegistryOfFirstDefines(d', names) /\ RedefinitionRejected(d', names)]_vars

\* A template of the included library was defined again by the entry file,
\* and Decode was called once more after the error.
C12_Witness ==
    /\ d.err.kind = "expr"
    /\ d.err.msg = "template \"in\" redefined; previous define: lib.linebased:3"
    /\ d.err.at.File = "main.linebased"
    /\ d.defs["in"].decl.File = "lib.linebased"
    /\ repeats > 0

\* A template was defined twice by one file.
C12_WitnessSameFile ==
    /\ d.err.kind = "expr"
    /\ "a" \in DOMAIN d.defs
    /\ d.err.at.File = "main.linebased"
    /\ d.err.msg = "template \"a\" redefined; previous define: main.linebased:"
                   \o ToString(d.defs["a"].decl.Line)
    /\ d.defs["a"].decl.Line < d.err.at.Line

\* Call c fails for the define in its body and leaves the registry alone.
NestedDefine(c) ==
    /\ d.err.kind = "expr"
    /\ ret.err = d.err
    /\ HasPrefix(d.err.msg,
           "expansion of \"" \o c.site.Name \o "\" contains illegal nested define: ")
    /\ Direct(c.site) = <<>>
    /\ DOMAIN d.defs = c.defs

(***************************************************************************)
(* C13. Template expansion never adds a template to the registry: a body   *)
(* expression whose name is define, literally or after substitution, makes *)
(* Decode fail with the 'illegal nested define' error; every define is     *)
(* processed outside any template call, and the calls nested in a call     *)
(* find the registry their caller found.                                   *)
(***************************************************************************)
C13_NoNestedDefine ==
    /\ \A k \in 1..Len(d.hist.calls) :
          Accepted(d.hist.calls[k]) =>
              \E body \in {BodyOf(d.hist.calls[k])} :
                  \A i \in 1..Len(body) :
                      (/\ Undeclared(d.hist.calls[k], body[i]) = {}
                       /\ SubstName(d.hist.calls[k], body[i]) = "define"
                       /\ Reached(d.hist.calls[k], body, i)) =>
                          NestedDefine(d.hist.calls[k])
    /\ \A k \in 1..Len(d.hist.defines) :
          /\ d.hist.defines[k].depth = 0
          /\ d.hist.defines[k].site.Stack = <<>>
    /\ \A k \in 2..Len(d.hist.calls) :
          d.hist.calls[k].site.Stack # <<>> =>
              d.hist.calls[k].defs = d.hist.calls[k - 1].defs

\* mk was called with define as its argument: its body became a define.
C13_Witness ==
    /\ d.err.kind = "expr"
    /\ HasPrefix(d.err.msg, "expansion of \"mk\" contains illegal nested define: ")
    /\ \E k \in 1..Len(d.hist.calls) :
          /\ d.hist.calls[k].site.Name = "mk"
          /\ Fields(d.hist.calls[k].site.Body) = <<"define">>

\* lit was called: its body holds a literal define.
C13_WitnessLiteral ==
    /\ d.err.kind = "expr"
    /\ HasPrefix(d.err.msg, "expansion of \"lit\" contains illegal nested define: ")
    /\ "inner" \notin DOMAIN d.defs

(***************************************************************************)
(* Includes, as the claims speak of them.                                  *)
(***************************************************************************)

\* The path an include expression names: its first word.
IncludeArg(site) == IF Fields(site.Body) = <<>> THEN "" ELSE Fields(site.Body)[1]

\* The path is empty, holds a separator or carries the extension.
InvalidPath(p) ==
    \/ p = ""
    \/ \E i \in 0..(Len(p) - 1) : At(p, i) = "/"
    \/ (Len(p) >= 10 /\ From(p, Len(p) - 10) = ".linebased")

\* Include i left the engine as it found it, with the error at its line.
Refused(i) ==
    /\ i = Len(d.hist.includes)
    /\ d.err.kind = "expr"
    /\ ret.err = d.err
    /\ d.err.at = d.hist.includes[i].site
    /\ d.includeStack = d.hist.includes[i].stack
    /\ d.decoderStack = d.hist.includes[i].decoders

C14_WitnessEmpty ==
    /\ d.hist.includes # <<>>
    /\ IncludeArg(d.hist.includes[Len(d.hist.includes)].site) = ""
    /\ d.err.kind = "expr"

C14_WitnessSeparator ==
    /\ d.hist.includes # <<>>
    /\ IncludeArg(d.hist.includes[Len(d.hist.includes)].site) = "a/b"
    /\ d.err.kind = "expr"

\* The file a valid include asks the filesystem for.
IncludedFile(site) == IncludeArg(site) \o ".linebased"

Origin(file, line, name) == [File |-> file, Line |-> line, Name |-> name]

\* The include expression e of a file read under the includes of stack
\* brings a file in.
Splices(e, stack) ==
    /\ e.Name = "include"
    /\ ~InvalidPath(IncludeArg(e))
    /\ IncludedFile(e) \in DOMAIN d.fsys
    /\ ~SlicesContains(stack, IncludedFile(e))

RECURSIVE Composition(_, _)
RECURSIVE Composed(_, _, _)
Composed(es, file, stack) ==
    IF es = <<>> THEN <<>>
    ELSE (IF Splices(Head(es), stack)
          THEN Composition(IncludedFile(Head(es)), Append(stack, IncludedFile(Head(es))))
          ELSE <<Origin(file, Head(es).Line, Head(es).Name)>>)
         \o Composed(Tail(es), file, stack)

Composition(file, stack) ==
    Composed(RawStream(NewDecoder(d.fsys[file]), <<>>).exprs, file, stack)

\* The top-level expression that produced the returned expression e.
OriginOf(e) ==
    IF e.Stack = <<>> THEN Origin(e.File, e.Line, e.Name)
    ELSE Origin(e.Stack[1].File, e.Stack[1].Line, e.Stack[1].Name)

\* The origins as can be found in order in the composition bs, an origin
\* allowed to repeat.
RECURSIVE Embeds(_, _)
Embeds(as, bs) ==
    IF as = <<>> THEN TRUE
    ELSE IF bs = <<>> THEN FALSE
    ELSE IF Head(as) = Head(bs) THEN Embeds(Tail(as), bs)
    ELSE Embeds(as, Tail(bs))

\* The files that the composition of file is made of.
FilesOf(file) ==
    {file} \cup {Composition(file, <<entry, file>>)[k].File :
                    k \in 1..Len(Composition(file, <<entry, file>>))}

\* The returned expressions follow comp, the composition of the entry file.
Spliced(comp) ==
    /\ Embeds([i \in 1..Len(out) |-> OriginOf(out[i])], comp)
    /\ ret.err = EOF =>
          \A k \in 1..Len(comp) :
              comp[k].Name \notin DOMAIN d.defs \cup {"define", "include"} =>
                  \E i \in 1..Len(out) : OriginOf(out[i]) = comp[k]
    /\ ret.err = EOF =>
          \A i \in 1..Len(d.hist.includes) :
              (/\ d.hist.includes[i].site.File = entry
               /\ Splices(d.hist.includes[i].site, <<entry>>)) =>
                  \E fs \in {FilesOf(IncludedFile(d.hist.includes[i].site))} :
                      \A k \in 1..Len(comp) :
                          (/\ comp[k].File = entry
                           /\ comp[k].Line > d.hist.includes[i].site.Line
                           /\ comp[k].Name \in DOMAIN d.defs
                           /\ d.defs[comp[k].Name].body # ""
                           /\ DefSite(comp[k].Name).File \in fs) =>
                              \E c \in 1..Len(d.hist.calls) :
                                  /\ d.hist.calls[c].site.Stack = <<>>
                                  /\ OriginOf(d.hist.calls[c].site) = comp[k]

Raw(file) == RawStream(NewDecoder(d.fsys[file]), <<>>).exprs

\* No template with a body has this name.
Unmatched(name) ==
    /\ name \notin {"define", "include", ""}
    /\ (name \in DOMAIN d.defs => d.defs[name].body = "")

(***************************************************************************)
(* C17. An expression whose name is not define, include or empty and that  *)
(* matches no template, or a template whose body is empty, is returned     *)
(* with its line, comment, name and body unchanged, whatever the number of *)
(* its arguments; the File and a snapshot of the Call Stack are added.     *)
(***************************************************************************)
C17_PassThroughUnchanged ==
    /\ \A i \in {Len(out)} \ {0} :
          (ret.err = Nil /\ out[i].Stack = <<>> /\ out[i].Name # "") =>
              /\ ret.expr = out[i]
              /\ out[i].File \in DOMAIN d.fsys
              /\ \E raw \in {Raw(out[i].File)} :
                    \E k \in 1..Len(raw) : raw[k] = Projected(out[i])
    /\ (ret.err = EOF /\ repeats = 0 /\ entry \in DOMAIN d.fsys) =>
          /\ \A f \in FilesOf(entry) : \E raw \in {Raw(f)} :
                \A k \in 1..Len(raw) :
                    Unmatched(raw[k].Name) =>
                        \E i \in 1..Len(out) :
                            /\ Projected(out[i]) = raw[k]
                            /\ out[i].File = f
                            /\ out[i].Stack = <<>>
          /\ \A c \in 1..Len(d.hist.calls) :
                Accepted(d.hist.calls[c]) =>
                    \E body \in {BodyOf(d.hist.calls[c])} :
                        \A k \in 1..Len(body) :
                            \E name \in {SubstName(d.hist.calls[c], body[k])} :
                                Unmatched(name) =>
                                    \E i \in 1..Len(out) :
                                        /\ out[i].Stack = Append(d.hist.calls[c].site.Stack,
                                                                 d.hist.calls[c].site)
                                        /\ out[i].Line = body[k].Line
                                        /\ out[i].Name = name
                                        /\ out[i].Comment = body[k].Comment

\* nop, a template with one parameter and no body, was called with two
\* arguments and passed through.
C17_Witness ==
    /\ ret.err = EOF
    /\ "nop" \in DOMAIN d.defs
    /\ \E i \in 1..Len(out) :
          /\ out[i].Name = "nop"
          /\ out[i].Body = "1 2\n"
          /\ out[i].Stack = <<>>
          /\ out[i].File = "main.linebased"

\* nop was called with no argument by the body of wrap and passed through
\* with the call of wrap as its Stack.
C17_WitnessNested ==
    /\ ret.err = EOF
    /\ \E i \in 1..Len(out) :
          /\ out[i].Name = "nop"
          /\ Len(out[i].Stack) = 1
          /\ out[i].Stack[1].Name = "wrap"

(***************************************************************************)
(* The lines of the Decoder's input, as the claims speak of them.          *)
(***************************************************************************)

\* The lines of t, each with its newline; the last may lack one.
RECURSIVE TextLines(_)
TextLines(t) ==
    IF t = "" THEN <<>>
    ELSE IF IndexIn(t, {"\n"}, 0) < 0 THEN <<t>>
    ELSE <<Slice(t, 0, IndexIn(t, {"\n"}, 0) + 1)>>
         \o TextLines(From(t, IndexIn(t, {"\n"}, 0) + 1))

\* What line k of ls is: a tab line is a continuation when it directly
\* follows a command line or one of its continuation lines.
RECURSIVE LineKind(_, _)
LineKind(ls, k) ==
    CASE At(ls[k], 0) = " "  -> "bad"
      [] At(ls[k], 0) = "\t" ->
            IF k > 1 /\ LineKind(ls, k - 1) \in {"command", "continuation"}
            THEN "continuation" ELSE "bad"
      [] At(ls[k], 0) = "#"  -> "comment"
      [] At(ls[k], 0) = "\n" -> "blank"
      [] OTHER -> "command"

\* The Expressions returned so far.
Returned == SelectSeq(results, LAMBDA r : r.err = Nil)

\* The caller has read the input to its end.
AtEOF == results # <<>> /\ results[Len(results)].err = EOF

(***************************************************************************)
(* C18. Every Expression returned by one Decoder has Line >= 1, and the    *)
(* Lines of the Expressions it returns are strictly increasing, also with  *)
(* multi-line commands and with input that ends in comment lines, with or  *)
(* without a final newline.                                                *)
(***************************************************************************)
C18_LinesIncrease ==
    /\ \A i \in 1..Len(Returned) : Returned[i].expr.Line >= 1
    /\ \A i \in 1..(Len(Returned) - 1) :
          Returned[i].expr.Line < Returned[i + 1].expr.Line

\* A command of two lines was returned, then the comment that ends the
\* input without a newline.
C18_Witness ==
    /\ AtEOF
    /\ Len(Returned) = 3
    /\ Returned[1].expr.Name = "sql"
    /\ Returned[2].expr.Line = 3
    /\ Returned[3].expr.Comment = "#t"
    /\ Returned[3].expr.Line = 4

(***************************************************************************)
(* C19. Decode returns the SyntaxError 'unexpected whitespace at start of  *)
(* line' with the 1-indexed number of the line whenever it reads a line    *)
(* that starts with a space, or one that starts with a tab and does not    *)
(* directly follow a command line or one of its continuation lines.        *)
(***************************************************************************)
C19_WhitespaceError ==
    /\ \A i \in 1..Len(results) :
          results[i].err.kind = "syntax" =>
              /\ results[i].err.msg = "unexpected whitespace at start of line"
              /\ results[i].err.line \in 1..Len(TextLines(text))
              /\ LineKind(TextLines(text), results[i].err.line) = "bad"
              /\ results[i].expr = ZeroExpression
    /\ AtEOF =>
          \A k \in 1..Len(TextLines(text)) :
              LineKind(TextLines(text), k) = "bad" =>
                  \E i \in 1..Len(results) :
                      /\ results[i].err.kind = "syntax"
                      /\ results[i].err.line = k
    /\ \A i \in 1..Len(Returned) :
          Returned[i].expr.Line \in 1..Len(TextLines(text)) =>
              LineKind(TextLines(text), Returned[i].expr.Line) # "bad"

\* A tab line after a comment and a line that starts with a space were read.
C19_Witness ==
    /\ text = "# c\n\tx\n bad\n"
    /\ AtEOF
    /\ Len(results) = 3
    /\ results[1].err.line = 2
    /\ results[2].err.line = 3

\* A tab line after a blank line that follows a command was read.
C19_WitnessAfterBlank ==
    /\ text = "echo hi\n\n\tx\n"
    /\ AtEOF
    /\ results[3].err.kind = "syntax"
    /\ results[3].err.line = 3

Rest(n) == Concat(SubSeq(TextLines(text), n + 1, Len(TextLines(text))))

\* What a Decoder returns, call after call up to io.EOF.
RECURSIVE RunAll(_, _)
RunAll(dcd, acc) ==
    IF DecoderDecode(dcd).err = EOF
    THEN Append(acc, [expr |-> ZeroExpression, err |-> EOF])
    ELSE RunAll(DecoderDecode(dcd).d,
                Append(acc, [expr |-> DecoderDecode(dcd).expr,
                             err |-> DecoderDecode(dcd).err]))

\* The result r of a Decoder that began n lines further down.
Shift(r, n) ==
    IF r.err = Nil THEN [r EXCEPT !.expr.Line = @ + n]
    ELSE IF r.err.kind = "syntax" THEN [r EXCEPT !.err.line = @ + n]
    ELSE r

C21_StringRoundTrip ==
    \A i \in 1..Len(Returned) :
        \E again \in {RunAll(NewDecoder(String(Returned[i].expr)), <<>>)} :
            /\ Len(again) = 2
            /\ again[1].err = Nil
            /\ again[1].expr.Name = Returned[i].expr.Name
            /\ Fields(again[1].expr.Body) = Fields(Returned[i].expr.Body)

\* The message msg without the occurrences of the prefix pre.
RECURSIVE Without(_, _)
Without(msg, pre) ==
    LET at == {i \in 0..Len(msg) : HasPrefix(From(msg, i), pre)}
        first == CHOOSE i \in at : \A j \in at : i <= j
    IN  IF pre = "" \/ at = {} THEN msg
        ELSE Slice(msg, 0, first) \o Without(From(msg, first + Len(pre)), pre)

\* The prefix that d puts before a file name.
RootPrefix(e) == IF e.root = "" THEN "" ELSE TrimRight(e.root, {"/"}) \o "/"

\* Expressions a and b are the same but for their File fields.
SameButFile(a, b) ==
    /\ Projected(a) = Projected(b)
    /\ Len(a.Stack) = Len(b.Stack)
    /\ \A k \in 1..Len(a.Stack) : Projected(a.Stack[k]) = Projected(b.Stack[k])

(***************************************************************************)
(* C22. Two ExpandingDecoders over the same filesystem and entry file that *)
(* differ only in the prefix given to SetRoot open the same file names in  *)
(* the same order and return, call by call, the same line, comment, name   *)
(* and body and the same outcome; only File fields and the location text   *)
(* of errors differ.                                                       *)
(***************************************************************************)
C22_RootOnlyInText ==
    /\ d.hist.opened = twin.hist.opened
    /\ SameButFile(ret.expr, twinRet.expr)
    /\ ret.err.kind = twinRet.err.kind
    /\ ret.err.line = twinRet.err.line
    /\ SameButFile(ret.err.at, twinRet.err.at)
    /\ Without(ret.err.msg, RootPrefix(d)) = twinRet.err.msg
    /\ [d EXCEPT !.root = "", !.err = Nil, !.defs = <<>>, !.pending = <<>>,
                 !.decoderStack = <<>>, !.callStack = twin.callStack, !.hist = twin.hist]
       = [twin EXCEPT !.err = Nil, !.defs = <<>>, !.pending = <<>>,
                      !.decoderStack = <<>>]
    /\ DOMAIN d.defs = DOMAIN twin.defs
    /\ Len(d.decoderStack) = Len(twin.decoderStack)
    /\ \A k \in 1..Len(d.decoderStack) : d.decoderStack[k] = twin.decoderStack[k]
    /\ Len(d.pending) = Len(twin.pending)

\* SetRoot("pkg/") was called before the first Decode; an included file was
\* opened and an expression of it returned under the prefix.
C22_Witness ==
    /\ d.root = "pkg/"
    /\ d.hist.opened = <<"main.linebased", "sub.linebased">>
    /\ ret.err = Nil
    /\ ret.expr.File = "pkg/sub.linebased"
    /\ twinRet.expr.File = "sub.linebased"

\* With a prefix set, a template of the library was defined a second time:
\* the messages of the two errors differ in the location they cite.
C22_WitnessError ==
    /\ d.root = "a/b"
    /\ ret.err.kind = "expr"
    /\ ret.err.msg # twinRet.err.msg
    /\ HasPrefix(ret.err.msg, "template ")

\* The arguments before the last of a list returned for the count c.
Leading(list, c) == SubSeq(list, 1, IF Len(list) < c THEN Len(list) ELSE c - 1)

\* list holds at most c arguments: fields of s in order, and as the c-th,
\* when there is one, all the text of s from its c-th field on.
SplitsAtMost(s, c, list) ==
    /\ Len(list) <= c
    /\ \A k \in 1..Len(Leading(list, c)) :
           k <= Len(Fields(s)) /\ list[k] = Fields(s)[k]
    /\ Len(list) = c =>
           /\ HasSuffix(s, list[c])
           /\ Fields(s) = Leading(list, c) \o Fields(list[c])
           /\ c = 1 => list[c] = s
           /\ c > 1 => ~IsSpace(At(list[c], 0))
    /\ Len(list) < c => Len(list) = Len(Fields(s))

(***************************************************************************)
(* C23. ParseArgs(s, n) returns nil when n = 0 or s is empty; for n > 0 it *)
(* returns at most n arguments, the first n-1 being fields of s in order   *)
(* and the last one all the remaining text of s, unsplit; for n < 0 it     *)
(* returns the fields of s; Args.At(i) returns the empty string for every  *)
(* i outside the list.                                                     *)
(***************************************************************************)
C23_ParseArgs ==
    /\ argList.called =>
           /\ (argN = 0 \/ text = "") => argList.list = <<>>
           /\ argN > 0 => SplitsAtMost(text, argN, argList.list)
           /\ argN < 0 => argList.list = Fields(text)
    /\ argAt.called =>
           ((argAt.i < 0 \/ argAt.i >= Len(argList.list)) => argAt.s = "")

(***************************************************************************)
(* A fifth machine: the document of the language server, cmd/lblsp.        *)
(*   doc  the document: uri, source, root, text, fsys, and what parse      *)
(*        computes, exprs, defs and errors.  Its field hist records, for   *)
(*        the last parse, the URIs of the files parseFile decoded          *)
(*        (parsed) and the defines it met (defines), in order, and the     *)
(*        number of setText calls (edits).                                 *)
(***************************************************************************)
MaxEdits == 2

\* The number of files after which the model stops following includes; the
\* code has no such limit.
MaxFiles == 8

\* strings.Split(s, "\n")
RECURSIVE SplitLines(_)
SplitLines(s) ==
    IF IndexIn(s, {"\n"}, 0) < 0 THEN <<s>>
    ELSE <<Slice(s, 0, IndexIn(s, {"\n"}, 0))>>
         \o SplitLines(From(s, IndexIn(s, {"\n"}, 0) + 1))

\* strings.Join(xs, "\n")
RECURSIVE JoinLines(_)
JoinLines(xs) ==
    IF xs = <<>> THEN ""
    ELSE IF Len(xs) = 1 THEN xs[1]
    ELSE xs[1] \o "\n" \o JoinLines(Tail(xs))

RECURSIVE DropLeadingEmpty(_)
DropLeadingEmpty(xs) ==
    IF xs # <<>> /\ xs[1] = "" THEN DropLeadingEmpty(Tail(xs)) ELSE xs

RECURSIVE DropTrailingEmpty(_)
DropTrailingEmpty(xs) ==
    IF xs # <<>> /\ xs[Len(xs)] = ""
    THEN DropTrailingEmpty(SubSeq(xs, 1, Len(xs) - 1)) ELSE xs

formatComment(comment) ==
    LET raw == SplitLines(TrimSuffix(comment, "\n"))
        lines == [k \in 1..Len(raw) |->
                     TrimSpace(IF HasPrefix(TrimSpace(raw[k]), "#")
                               THEN From(TrimSpace(raw[k]), 1)
                               ELSE TrimSpace(raw[k]))]
    IN  JoinLines(DropTrailingEmpty(DropLeadingEmpty(lines)))

\* path.Dir(p) for the paths of the model, which are clean.
RECURSIVE LastSlash(_, _)
LastSlash(p, i) ==
    IF i < 0 THEN -1 ELSE IF At(p, i) = "/" THEN i ELSE LastSlash(p, i - 1)

pathDir(p) ==
    LET i == LastSlash(p, Len(p) - 1)
    IN  IF i < 0 THEN "." ELSE IF i = 0 THEN "/" ELSE Slice(p, 0, i)

\* path.Join(dir, name) for a clean dir and a name without slashes.
pathJoin(dir, name) == TrimRight(dir, {"/"}) \o "/" \o name

\* fs.ReadFile(fsys, name)
ReadFile(fsys, name) ==
    IF name \in DOMAIN fsys THEN [ok |-> TRUE, content |-> fsys[name]]
    ELSE [ok |-> FALSE, content |-> ""]

\* The expressions of the body of a define, decoded until io.EOF or an error.
RECURSIVE bodyExprs(_, _, _)
bodyExprs(rs, k, line) ==
    IF k > Len(rs) \/ rs[k].err # Nil THEN <<>>
    ELSE (IF rs[k].expr.Name # ""
          THEN <<[name |-> rs[k].expr.Name, line |-> line + rs[k].expr.Line]>>
          ELSE <<>>)
         \o bodyExprs(rs, k + 1, line)

\* The exprInfo of an expression of the main document.
exprInfo(expr) ==
    LET c == CutNL(expr.Body)
        fields == Fields(c.before)
    IN  [expr |-> expr, line |-> expr.Line - 1,
         definedName |-> IF expr.Name = "define" /\ fields # <<>> THEN fields[1] ELSE "",
         bodyExprs |-> IF expr.Name = "define" /\ c.after # ""
                       THEN bodyExprs(RunAll(NewDecoder(c.after), <<>>), 1, expr.Line - 1)
                       ELSE <<>>]

\* A define that replaces the definition the table holds.
defineLast(dc, uri, expr) ==
    LET fields == Fields(CutNL(expr.Body).before)
    IN  IF fields = <<>> THEN dc
        ELSE [dc EXCEPT
                 !.hist.defines = Append(@, [name |-> fields[1], uri |-> uri,
                                             line |-> expr.Line - 1]),
                 !.defs = [m \in DOMAIN @ \cup {fields[1]} |->
                              IF m = fields[1]
                              THEN [uri |-> uri, doc |-> formatComment(expr.Comment),
                                    params |-> Tail(fields), line |-> expr.Line - 1]
                              ELSE @[m]]]

\* parseFile, a define: the definition is entered unless the name has one.
defineFirst(dc, uri, expr) ==
    LET fields == Fields(CutNL(expr.Body).before)
    IN  IF fields = <<>> THEN dc
        ELSE [dc EXCEPT
                 !.hist.defines = Append(@, [name |-> fields[1], uri |-> uri,
                                             line |-> expr.Line - 1]),
                 !.defs = IF fields[1] \in DOMAIN @ THEN @
                          ELSE [m \in DOMAIN @ \cup {fields[1]} |->
                                   IF m = fields[1]
                                   THEN [uri |-> uri, doc |-> formatComment(expr.Comment),
                                         params |-> Tail(fields), line |-> expr.Line - 1]
                                   ELSE @[m]]]

\* parseFile, the cycle check: seen[source].
seenBefore(seen, source) == source \in seen

RECURSIVE parseFile(_, _, _, _, _)
RECURSIVE parseLoop(_, _, _, _)

\* document.processInclude; st is the document and the seen map.
processInclude(st, includePath) ==
    LET name == includePath \o ".linebased"
        file == ReadFile(st.doc.fsys, name)
    IN  IF ~file.ok THEN st
        ELSE parseFile(st.doc, st.seen, "file://" \o pathJoin(st.doc.root, name),
                       name, file.content)

\* parseFile, one result of dec.Decode().
parseResult(st, uri, r) ==
    IF r.err # Nil
    THEN IF r.err.kind = "syntax" /\ uri = st.doc.uri
         THEN [st EXCEPT !.doc.errors =
                  Append(@, [line |-> r.err.line - 1, msg |-> r.err.msg])]
         ELSE st
    ELSE LET tracked == IF uri = st.doc.uri
                        THEN [st EXCEPT !.doc.exprs = Append(@, exprInfo(r.expr))]
                        ELSE st
         IN  IF r.expr.Name = "define"
             THEN [tracked EXCEPT !.doc = defineFirst(@, uri, r.expr)]
             ELSE IF r.expr.Name = "include"
                       /\ TrimSpace(SplitLines(r.expr.Body)[1]) # ""
             THEN processInclude(tracked, TrimSpace(SplitLines(r.expr.Body)[1]))
             ELSE tracked

\* parseFile, the loop over the results rs of the file's Decoder, from the
\* k-th on, up to io.EOF.
parseLoop(st, uri, rs, k) ==
    IF k > Len(rs) \/ rs[k].err = EOF THEN st
    ELSE parseLoop(parseResult(st, uri, rs[k]), uri, rs, k + 1)

parseFile(dc, seen, uri, source, t) ==
    IF seenBefore(seen, source) THEN [doc |-> dc, seen |-> seen]
    ELSE IF Len(dc.hist.parsed) >= MaxFiles
    THEN [doc |-> [dc EXCEPT !.hist.overflow = TRUE], seen |-> seen]
    ELSE parseLoop([doc |-> [dc EXCEPT !.hist.parsed = Append(@, uri)],
                    seen |-> seen \cup {source}],
                   uri, RunAll(NewDecoder(t), <<>>), 1)

\* parse, the check of one expression of the main document.
checkCall(dc, info) ==
    IF info.expr.Name \in {"", "define", "include"}
       \/ info.expr.Name \notin DOMAIN dc.defs
    THEN dc
    ELSE LET def == dc.defs[info.expr.Name]
             given == ParseArgs(info.expr.Body, Len(def.params) + 1)
             numArgs == Cardinality({k \in 1..Len(given) : TrimSpace(given[k]) # ""})
         IN  IF def.uri = dc.uri /\ def.line > info.line
             THEN [dc EXCEPT !.errors = Append(@, [line |-> info.line,
                      msg |-> "template " \o Quote(info.expr.Name)
                              \o " used before definition on line "
                              \o ToString(def.line + 1)])]
             ELSE IF numArgs < Len(def.params)
             THEN [dc EXCEPT !.errors = Append(@, [line |-> info.line,
                      msg |-> info.expr.Name \o " requires " \o ToString(Len(def.params))
                              \o " argument(s), got " \o ToString(numArgs)])]
             ELSE dc

RECURSIVE checkCalls(_, _)
checkCalls(dc, k) ==
    IF k > Len(dc.exprs) THEN dc ELSE checkCalls(checkCall(dc, dc.exprs[k]), k + 1)

\* A parse that keeps the definition table of the previous text.
parseKeepsDefs(dc) ==
    LET cleared == [dc EXCEPT !.lines = SplitLines(dc.text),
                              !.exprs = <<>>, !.errors = <<>>,
                              !.hist.parsed = <<>>, !.hist.defines = <<>>,
                              !.hist.overflow = FALSE]
    IN  checkCalls(parseFile(cleared, {}, dc.uri, dc.source, dc.text).doc, 1)

\* document.parse
parse(dc) ==
    LET cleared == [dc EXCEPT !.lines = SplitLines(dc.text),
                              !.exprs = <<>>, !.errors = <<>>, !.defs = <<>>,
                              !.hist.parsed = <<>>, !.hist.defines = <<>>,
                              !.hist.overflow = FALSE]
    IN  checkCalls(parseFile(cleared, {}, dc.uri, dc.source, dc.text).doc, 1)

\* newDocumentFS
newDocumentFS(uri, t, fsys) ==
    LET source == IF HasPrefix(uri, "file://") /\ Len(uri) > 7 THEN From(uri, 7) ELSE uri
    IN  parse([uri |-> uri, source |-> source, root |-> pathDir(source), text |-> t,
               lines |-> <<>>, exprs |-> <<>>, defs |-> <<>>, errors |-> <<>>,
               fsys |-> fsys, opened |-> TRUE,
               hist |-> [parsed |-> <<>>, defines |-> <<>>, overflow |-> FALSE,
                         edits |-> 0]])

\* document.setText
setText(dc, t) == parse([dc EXCEPT !.text = t, !.hist.edits = @ + 1])

\* The files the language server reads: the libraries of its tests.
DocFiles ==
    [f \in {"a.linebased", "b.linebased", "lib.linebased"} |->
        CASE f = "a.linebased" -> "include b\ndefine from_a\n\techo a\n"
          [] f = "b.linebased" -> "include a\ndefine from_b\n\techo b\n"
          [] OTHER -> "# Greets someone\ndefine greet name\n\techo Hello, $name!\n"]

DocURIs == {"file:///main.lb", "file:///a.linebased"}

DocMenu ==
    {"include a\n", "include b\n", "include lib\n", "include nofile\n",
     "define greet\n\techo from main\n", "define from_b x\n\tgreet $x\n",
     "greet Alice\n", "greet\n", " bad\n"}

DocTexts == {Concat(l) : l \in Scripts(DocMenu)}

\* The texts the editor sends after the first.
EditTexts ==
    {"", "include a\n", "define greet\n\techo from main\ninclude lib\n",
     "include lib\ndefine greet\n\techo from main\n"}

DocInit ==
    /\ EngineIdle
    /\ text = ""
    /\ argN = 0
    /\ argList = NoArgs
    /\ argAt = NoArg
    /\ \E uri \in DocURIs, t \in DocTexts : doc = newDocumentFS(uri, t, DocFiles)

\* The editor changes the text of the document.
SetText ==
    /\ doc.hist.edits < MaxEdits
    /\ \E t \in EditTexts : doc' = setText(doc, t)
    /\ UNCHANGED <<entry, d, ret, out, repeats, text, decoder, results, twin, twinRet,
                   argN, argList, argAt>>

DocNext == SetText

DocSpec == DocInit /\ [][DocNext]_vars

\* The first define of name in the defines met by the last parse.
FirstDefine(name) ==
    doc.hist.defines[CHOOSE k \in 1..Len(doc.hist.defines) :
        /\ doc.hist.defines[k].name = name
        /\ \A j \in 1..(k - 1) : doc.hist.defines[j].name # name]

(***************************************************************************)
(* C24. In the document of the language server, when a template name is   *)
(* defined more than once across the main file and the files it includes, *)
(* the definition table holds the define met first in parse order: a      *)
(* later define of the name never replaces it.                             *)
(***************************************************************************)
C24_FirstDefinitionKept ==
    /\ DOMAIN doc.defs = {doc.hist.defines[k].name : k \in 1..Len(doc.hist.defines)}
    /\ \A name \in DOMAIN doc.defs :
           /\ doc.defs[name].uri = FirstDefine(name).uri
           /\ doc.defs[name].line = FirstDefine(name).line

\* TestLocalDefOverridesInclude: greet is defined in the main file, then in
\* the included lib, and the table holds the one of the main file.
C24_Witness ==
    /\ doc.uri = "file:///main.lb"
    /\ doc.text = "define greet\n\techo from main\ninclude lib\n"
    /\ Len(doc.hist.defines) = 2
    /\ doc.defs["greet"].uri = "file:///main.lb"
    /\ doc.defs["greet"].params = <<>>

\* The include comes first: the table holds the define of the library.
C24_WitnessIncludeFirst ==
    /\ doc.text = "include lib\ndefine greet\n\techo from main\n"
    /\ Len(doc.hist.defines) = 2
    /\ doc.defs["greet"].uri = "file:///lib.linebased"
    /\ doc.defs["greet"].doc = "Greets someone"

\* The files of DocFiles that include each other: a and b.  An include of
\* either enters the cycle.
OnCycle == {"file:///a.linebased", "file:///b.linebased"}

\* The names that the files of the cycle define on disk.
CycleDefines == {"from_a", "from_b"}

(***************************************************************************)
(* C25. Parsing a document whose includes form a cycle (a includes b, b    *)
(* includes a) terminates, parses each file at most once per parse, and    *)
(* records the definitions of every file of the cycle.                     *)
(***************************************************************************)
C25_CycleParsedOnce ==
    (\E k \in 2..Len(doc.hist.parsed) : doc.hist.parsed[k] \in OnCycle) =>
        /\ ~doc.hist.overflow
        /\ \A j, k \in 1..Len(doc.hist.parsed) :
               j < k => doc.hist.parsed[j] # doc.hist.parsed[k]
        /\ OnCycle \subseteq {doc.hist.parsed[k] : k \in 1..Len(doc.hist.parsed)}
        /\ CycleDefines \subseteq DOMAIN doc.defs

(***************************************************************************)
(* C26. Every frame pushed on the Call Stack for a template call is popped *)
(* when the expansion of that call finishes, on every exit path: whenever  *)
(* Decode has returned, be it an expression, io.EOF or any error, a        *)
(* recursion error included, the Call Stack holds no frames.               *)
(***************************************************************************)
C26_CallStackEmptyOnReturn == d.callStack.frames = <<>>

(***************************************************************************)
(* C27. In every reachable state of the engine the names marked active in  *)
(* the membership set of the Call Stack are the names of the frames of its *)
(* list, also after a push that was refused because of recursion.          *)
(***************************************************************************)
C27_SeenMirrorsFrames ==
    d.callStack.seen = {d.callStack.frames[k].Name : k \in 1..Len(d.callStack.frames)}

\* x is a line of the body of the template that call calls, e the engine:
\* it has the file of the template, the line of an expression of the body
\* and, where that name holds no reference, its name.
Encloses(e, call, x) ==
    /\ call.Name \in DOMAIN e.defs
    /\ e.defs[call.Name].body # ""
    /\ x.File = e.defs[call.Name].decl.File
    /\ \E body \in {RawStream(NewDecoder(e.defs[call.Name].body), <<>>).exprs} :
           \E k \in 1..Len(body) :
               /\ body[k].Line = x.Line
               /\ ~ContainsChar(body[k].Name, "$") => body[k].Name = x.Name

\* The Stack of x is the chain of the template calls of engine e that
\* enclose x, the outermost first: the first was read from a file, each
\* carries the calls before it and encloses what follows it.
ChainOfCalls(e, x) ==
    \A k \in 1..Len(x.Stack) :
        /\ x.Stack[k].Stack = SubSeq(x.Stack, 1, k - 1)
        /\ \E c \in 1..Len(e.hist.calls) : e.hist.calls[c].site = x.Stack[k]
        /\ Encloses(e, x.Stack[k], IF k < Len(x.Stack) THEN x.Stack[k + 1] ELSE x)
        /\ k = 1 => \E raw \in {Raw(x.Stack[k].File)} :
                        \E i \in 1..Len(raw) : raw[i] = Projected(x.Stack[k])

(***************************************************************************)
(* C28. Every returned expression carries as Stack the chain of template   *)
(* calls that enclose the body line which produced it, the outermost call  *)
(* first and the immediate caller last; the Stack is empty exactly for the *)
(* expressions read directly from a file, and a Stack attached by a nested *)
(* call is not replaced by the shorter one of an outer call.               *)
(***************************************************************************)
C28_StackIsCallChain ==
    [][(d' # d /\ ret'.err = Nil) =>
          /\ ChainOfCalls(d', ret'.expr)
          /\ ret'.expr.Stack = <<>> =>
                /\ d.pending = <<>>
                /\ \E raw \in {Raw(ret'.expr.File)} :
                      \E i \in 1..Len(raw) : raw[i] = Projected(ret'.expr)
          /\ d.pending # <<>> => ret'.expr.Stack # <<>>
          /\ (d.pending = <<>> /\ d'.hist.calls = d.hist.calls) =>
                ret'.expr.Stack = <<>>]_vars

\* The first line of in, called by out, called by the main file: the
\* Stack holds the call of out, then the call of in.
C28_Witness ==
    /\ ret.err = Nil
    /\ ret.expr.Name = "a"
    /\ Len(ret.expr.Stack) = 2
    /\ ret.expr.Stack[1].Name = "out"
    /\ ret.expr.Stack[1].File = "main.linebased"
    /\ ret.expr.Stack[2].Name = "in"
    /\ ret.expr.Stack[2].File = "lib.linebased"

(***************************************************************************)
(* C29. While the Pending Queue is not empty, a Decode call returns the    *)
(* head of the queue and removes that element only: it reads from no       *)
(* Decoder and leaves the Template Registry, the Call Stack, the Include   *)
(* Stack and the Decoder Stack as they are.                                *)
(***************************************************************************)
C29_PendingDrainedFirst ==
    [][(DecodeCall /\ d.pending # <<>>) =>
          /\ ret'.err = Nil
          /\ ret'.expr = Head(d.pending)
          /\ d' = [d EXCEPT !.pending = Tail(@)]]_vars

\* The number of files opened when the k-th include was done: the number
\* found by the next include, or the number of now.
OpenedAfter(k) ==
    IF k < Len(d.hist.includes) THEN d.hist.includes[k + 1].opened
    ELSE Len(d.hist.opened)

(***************************************************************************)
(* C30. An expression named include that a template body produces is not   *)
(* a file-composition directive: it is only looked up in the Template      *)
(* Registry, where it matches nothing and passes through, and it opens no  *)
(* file.                                                                   *)
(***************************************************************************)
C30_IncludeInBodyNotDirective ==
    \A k \in 1..Len(d.hist.includes) :
        d.hist.includes[k].depth > 0 =>
            /\ OpenedAfter(k) = d.hist.includes[k].opened
            /\ d.err = Nil =>
                  \E x \in {out[i] : i \in 1..Len(out)}
                           \cup {d.pending[i] : i \in 1..Len(d.pending)} :
                      /\ x.Name = "include"
                      /\ x.Line = d.hist.includes[k].site.Line
                      /\ x.Stack # <<>>

\* The calls of dup, a template whose header is `dup x y x`, that were
\* given three arguments, and what they made of the body `echo $x ${y}`.
DupCalls == {k \in 1..Len(d.hist.calls) :
                /\ d.hist.calls[k].site.Name = "dup"
                /\ Len(Fields(d.hist.calls[k].site.Body)) >= 3}

DupOutput(k) == NamesBodies(Direct(d.hist.calls[k].site))

(***************************************************************************)
(* C31, as first stated.  A define header that names a parameter more than *)
(* once is accepted, and a reference to the name in the body is replaced   *)
(* by the argument at the place of the last occurrence of the name in the  *)
(* parameter list.                                                         *)
(***************************************************************************)
C31_LastOccurrenceWins ==
    /\ ("dup" \in DOMAIN d.defs => d.defs["dup"].params = <<"x", "y", "x">>)
    /\ d.err = EOF =>
          \A k \in DupCalls :
              DupOutput(k) = <<<<"echo", SpecArgs(d.hist.calls[k].site.Body, 3)[3]
                                         \o " " \o SpecArgs(d.hist.calls[k].site.Body, 3)[2]
                                         \o "\n">>>>

(***************************************************************************)
(* C31, amended.  A define header that names a parameter more than once is *)
(* accepted, and a reference to the name in the body is replaced by the    *)
(* argument at the place of the first occurrence of the name in the        *)
(* parameter list.                                                         *)
(***************************************************************************)
C31_FirstOccurrenceWins ==
    /\ ("dup" \in DOMAIN d.defs => d.defs["dup"].params = <<"x", "y", "x">>)
    /\ d.err = EOF =>
          \A k \in DupCalls :
              DupOutput(k) = <<<<"echo", SpecArgs(d.hist.calls[k].site.Body, 3)[1]
                                         \o " " \o SpecArgs(d.hist.calls[k].site.Body, 3)[2]
                                         \o "\n">>>>

\* dup 1 2 3 was expanded: echo 1 2.
C31_Witness ==
    /\ d.err = EOF
    /\ DupCalls # {}
    /\ \E i \in 1..Len(out) :
          /\ String(out[i]) = "echo 1 2\n"
          /\ Len(out[i].Stack) = 1
          /\ out[i].Stack[1].Body = "1 2 3\n"

\* The calls of the templates whose bodies hold blank lines and comment
\* lines only: quiet (# note), blank (one blank line), both (# c, a blank
\* line, # end).
BlankBodied == {"quiet", "blank", "both"}

BlankCalls == {k \in 1..Len(d.hist.calls) : d.hist.calls[k].site.Name \in BlankBodied}

(***************************************************************************)
(* C32, as first stated.  A call of a template whose body is not empty but *)
(* holds blank lines and comment lines only returns no expression: the     *)
(* Decode call that reads the call goes on with the input after it.        *)
(***************************************************************************)
C32_BlankBodyReturnsNothing ==
    \A k \in BlankCalls : Emitted(d.hist.calls[k].site) = <<>>

\* The lines, comments, names and bodies of es.
Projections(es) == [i \in 1..Len(es) |-> Projected(es[i])]

(***************************************************************************)
(* C32, amended.  A call of a template whose body is not empty but holds   *)
(* blank lines and comment lines only returns the blank expressions of the *)
(* body, each with an empty name, the comment lines before it and the call *)
(* as its Stack, and no other expression: one for every blank line and one *)
(* for the comment lines that end the body.                                *)
(***************************************************************************)
C32_BlankBodyReturnsBlanks ==
    d.err = EOF =>
        \A k \in BlankCalls :
            \E body \in {RawStream(NewDecoder(d.defs[d.hist.calls[k].site.Name].body),
                                   <<>>).exprs} :
                /\ body # <<>>
                /\ \A i \in 1..Len(body) : body[i].Name = ""
                /\ Projections(Emitted(d.hist.calls[k].site)) = body
                /\ \A i \in 1..Len(Emitted(d.hist.calls[k].site)) :
                       Emitted(d.hist.calls[k].site)[i].Stack = <<d.hist.calls[k].site>>

\* both was called: a blank expression with the comment # c, then one with
\* the comment # end.
C32_Witness ==
    /\ d.err = EOF
    /\ \E i \in 1..(Len(out) - 1) :
          /\ out[i].Name = "" /\ out[i].Comment = "# c\n" /\ out[i].Body = "\n"
          /\ out[i].Stack # <<>> /\ out[i].Stack[1].Name = "both"
          /\ out[i + 1].Name = "" /\ out[i + 1].Comment = "# end\n"
          /\ out[i + 1].Stack = out[i].Stack

\* Every file engine e opened has been read to its end and closed: no
\* Decoder and no include is left.
AllRead(e) == e.decoderStack = <<>> /\ e.includeStack = <<>>

(***************************************************************************)
(* C33. Decode returns io.EOF only when the Pending Queue is empty and the *)
(* Decoder Stack is empty, every opened file having been read to its end   *)
(* and every expanded expression returned; after it has returned io.EOF    *)
(* every later call returns io.EOF.                                        *)
(***************************************************************************)
C33_EOFOnlyAtEnd ==
    [][DecodeCall =>
          /\ ret'.err = EOF =>
                /\ d'.pending = <<>>
                /\ AllRead(d')
                /\ d'.err = EOF
                /\ d.pending = <<>>
          /\ ret.err = EOF => (ret'.err = EOF /\ d' = d)]_vars

\* io.EOF was returned, after the expressions of an included file and of a
\* template call, and returned again by the next call.
C33_Witness ==
    /\ ret.err = EOF
    /\ repeats > 0
    /\ Len(d.hist.opened) >= 2
    /\ \E i \in 1..Len(out) : out[i].Stack # <<>>
    /\ d.pending = <<>>
    /\ d.decoderStack = <<>>

(***************************************************************************)
(* C34. Whenever Decode returns without error, the Decoder Stack has       *)
(* exactly one frame per name on the Include Stack, in the same order and  *)
(* with the same file names, the entry file at the bottom of both, and the *)
(* file names on the Include Stack are pairwise distinct.                  *)
(***************************************************************************)
C34_DecoderStackMirrorsIncludes ==
    ret.err = Nil =>
        /\ Len(d.decoderStack) = Len(d.includeStack)
        /\ \A i \in 1..Len(d.includeStack) :
              d.decoderStack[i].file = d.includeStack[i]
        /\ d.includeStack # <<>> => d.includeStack[1] = entry
        /\ \A i, j \in 1..Len(d.includeStack) :
              d.includeStack[i] = d.includeStack[j] => i = j

\* Decode returned an expression read from an included file that is still
\* open, after another included file had ended and been popped.
C34_Witness ==
    /\ ret.err = Nil
    /\ out # <<>>
    /\ Len(d.decoderStack) >= 2
    /\ Len(d.hist.opened) > Len(d.decoderStack)

\* The template names of the frames of a Stack are pairwise distinct.
DistinctNames(stack) ==
    \A i, j \in 1..Len(stack) : stack[i].Name = stack[j].Name => i = j

(***************************************************************************)
(* C35. The template names of the frames in the Stack of any returned      *)
(* expression are pairwise distinct, so the depth of the Call Stack at any *)
(* classification never exceeds the number of templates in the registry.   *)
(***************************************************************************)
C35_StackNamesDistinct ==
    /\ \A i \in 1..Len(out) :
          /\ DistinctNames(out[i].Stack)
          /\ Len(out[i].Stack) <= Cardinality(DOMAIN d.defs)
          /\ \A k \in 1..Len(out[i].Stack) : out[i].Stack[k].Name \in DOMAIN d.defs
    /\ \A k \in 1..Len(d.hist.calls) :
          /\ DistinctNames(d.hist.calls[k].site.Stack)
          /\ Len(d.hist.calls[k].site.Stack) <= Cardinality(d.hist.calls[k].defs)

\* An expression was returned from two calls deep, and a call was
\* classified with two frames on the Call Stack and refused as recursive.
C35_Witness ==
    /\ \E i \in 1..Len(out) : Len(out[i].Stack) >= 2
    /\ \E k \in 1..Len(d.hist.calls) :
          /\ Len(d.hist.calls[k].site.Stack) >= 2
          /\ d.hist.calls[k].site.Name \in d.hist.calls[k].active

\* The last line of ls, from line k on, that belongs to the command of line
\* k: k itself or the last of the tab lines that directly follow it.
RECURSIVE EndOfRun(_, _)
EndOfRun(ls, k) ==
    IF k < Len(ls) /\ At(ls[k + 1], 0) = "\t" THEN EndOfRun(ls, k + 1) ELSE k

\* The last line of ls read by the Decode call that returned r.
LastLineOf(ls, r) ==
    CASE r.err = EOF -> Len(ls)
      [] r.err.kind = "syntax" -> r.err.line
      [] OTHER ->
            IF r.expr.Line \in 1..Len(ls) /\ LineKind(ls, r.expr.Line) = "command"
            THEN EndOfRun(ls, r.expr.Line)
            ELSE IF r.expr.Line \in 1..Len(ls) /\ LineKind(ls, r.expr.Line) = "blank"
            THEN r.expr.Line
            ELSE Len(ls)

\* The comment lines among lines a..b of ls, concatenated in order.
CommentsIn(ls, a, b) ==
    Concat(SelectSeq(SubSeq(ls, a, IF b < Len(ls) THEN b ELSE Len(ls)),
                     LAMBDA l : At(l, 0) = "#"))

\* The last line read before call i was made.
SincePreviousCall(i) ==
    IF i = 1 THEN 0 ELSE LastLineOf(TextLines(text), results[i - 1])

\* The last line read by the last call before call i that returned an
\* Expression.
SincePreviousExpression(i) ==
    IF \A p \in 1..(i - 1) : results[p].err # Nil THEN 0
    ELSE LastLineOf(TextLines(text),
             results[CHOOSE p \in 1..(i - 1) :
                        /\ results[p].err = Nil
                        /\ \A q \in (p + 1)..(i - 1) : results[q].err # Nil])

\* No comment line produced an Expression of its own: Expression i is that
\* of a blank or command line, or the one blank Expression of the comment
\* lines that end the input, from line `since` on.
NotOfComment(ls, i, since) ==
    \/ /\ results[i].expr.Line \in 1..Len(ls)
       /\ LineKind(ls, results[i].expr.Line) \in {"blank", "command"}
    \/ /\ results[i].expr.Name = ""
       /\ results[i].expr.Body = ""
       /\ results[i].expr.Comment # ""
       /\ since < Len(ls)
       /\ \A k \in (since + 1)..Len(ls) : LineKind(ls, k) = "comment"
       /\ \A j \in (i + 1)..Len(results) : results[j].err = EOF

\* Read to its end, the input gave one Expression for every blank and every
\* command line and one more when comment lines end it.
OnePerLine(ls) ==
    AtEOF =>
        Len(Returned) =
            Cardinality({k \in 1..Len(ls) : LineKind(ls, k) \in {"blank", "command"}})
            + (IF ls # <<>> /\ LineKind(ls, Len(ls)) = "comment" THEN 1 ELSE 0)

C36_WitnessTrailing ==
    /\ text = "# c\necho hi\n#t"
    /\ AtEOF
    /\ results[1].expr.Comment = "# c\n"
    /\ results[2].expr.Name = ""
    /\ results[2].expr.Comment = "#t"

\* Lines k+1..m of ls, each without its first character, joined in order.
RECURSIVE JoinStripped(_, _, _)
JoinStripped(ls, k, m) ==
    IF k >= m THEN "" ELSE From(ls[k + 1], 1) \o JoinStripped(ls, k + 1, m)

(***************************************************************************)
(* C37. A command expression consists of its command line plus exactly the *)
(* maximal run of directly following lines that start with a tab, each     *)
(* with exactly its first tab removed and joined in order; the first       *)
(* following line that does not start with a tab is not consumed and is    *)
(* the first line read by the next Decode call.                            *)
(***************************************************************************)
C37_ContinuationRun ==
    [][RawDecode =>
          \E ls \in {TextLines(text)} :
              \E r \in {results'[Len(results')]} :
                  (r.err = Nil /\ r.expr.Name # "") =>
                      /\ r.expr.Line \in 1..Len(ls)
                      /\ r.expr.Line > decoder.line
                      /\ LineKind(ls, r.expr.Line) = "command"
                      /\ \E m \in {EndOfRun(ls, r.expr.Line)} :
                            /\ \E p \in {parseBody(ls[r.expr.Line]
                                            \o JoinStripped(ls, r.expr.Line, m))} :
                                  r.expr.Name = p.name /\ r.expr.Body = p.tail
                            /\ decoder'.line = m
                            /\ decoder'.r = Rest(m)]_vars

\* A command was returned with two continuation lines, the second with a
\* tab left at its start, and the next call then returned the command of
\* the line that follows them.
C37_Witness ==
    /\ text = "sql q\n\tSELECT\n\t\ty\necho hi\n"
    /\ Len(results) = 2
    /\ results[1].expr.Body = "q\nSELECT\n\ty\n"
    /\ results[2].expr.Name = "echo"
    /\ results[2].expr.Line = 4

\* The call read from a file in whose expansion call c was classified.
TopOf(c) == IF c.site.Stack = <<>> THEN c.site ELSE c.site.Stack[1]

\* A body line of template t, called with args, refers to an unknown
\* parameter or is a define.
BadBodyLine(t, args) ==
    \E body \in {RawStream(NewDecoder(t.body), <<>>).exprs} :
        \E i \in 1..Len(body) :
            \E s \in {substitute([Line |-> body[i].Line, Comment |-> body[i].Comment,
                                  Name |-> body[i].Name, Body |-> body[i].Body,
                                  File |-> t.decl.File, Stack |-> <<>>],
                                 t.params, args)} :
                s.unknown # "" \/ s.expr.Name = "define"

\* The expansion of call c fails: the template is active already, the
\* number of arguments is not that of the parameters, or a body line refers
\* to an unknown parameter or is a define.
FailedCall(c) ==
    \/ c.site.Name \in c.active
    \/ \E t \in {d.defs[c.site.Name]} :
          \E args \in {ParseArgs(c.site.Body, Len(t.params))} :
              \/ Len(args) # Len(t.params)
              \/ BadBodyLine(t, args)

(***************************************************************************)
(* C38. If the expansion of a template call read from a file fails at any  *)
(* depth (argument count, unknown parameter, nested define, recursion),    *)
(* Decode returns the error without any expression produced by that call   *)
(* ever having been returned, including expressions of body lines that     *)
(* precede the failing one.                                                *)
(***************************************************************************)
C38_FailedCallReturnsNothing ==
    \A k \in 1..Len(d.hist.calls) :
        FailedCall(d.hist.calls[k]) =>
            /\ d.err \notin {Nil, EOF}
            /\ ret.err = d.err
            /\ Emitted(TopOf(d.hist.calls[k])) = <<>>

\* The call of `late` failed at its second body line, a recursive call,
\* after the first, a call of `in`, had given two expressions, and the
\* error was returned again by the next call.
C38_Witness ==
    /\ \E k \in 1..Len(d.hist.calls) :
          /\ d.hist.calls[k].site.Name = "rec"
          /\ Len(d.hist.calls[k].site.Stack) = 2
          /\ d.hist.calls[k].site.Stack[1].Name = "late"
          /\ FailedCall(d.hist.calls[k])
    /\ d.pending # <<>>
    /\ repeats > 0

\* The call of `unk2` failed at its second body line, which refers to an
\* unknown parameter, after the first had been expanded.
C38_WitnessUnknown ==
    \E k \in 1..Len(d.hist.calls) :
        /\ d.hist.calls[k].site.Name = "unk2"
        /\ FailedCall(d.hist.calls[k])
        /\ ret.err.kind = "expr"

\* What the language server answers from: the lines, the definition table,
\* the expression list and the diagnostics of document dc.
Analysis(dc) ==
    [lines |-> dc.lines, defs |-> dc.defs, exprs |-> dc.exprs, errors |-> dc.errors]

(***************************************************************************)
(* C39. After document.setText(t) the document's definition table,         *)
(* expression list and diagnostics equal those of a document freshly       *)
(* created with text t, the same URI and the same filesystem: no           *)
(* definition, expression or diagnostic of the previous text survives, for *)
(* any sequence of setText calls.                                          *)
(***************************************************************************)
C39_SetTextIsFreshDocument ==
    [][SetText =>
          /\ doc'.text \in EditTexts
          /\ doc'.uri = doc.uri
          /\ doc'.fsys = doc.fsys
          /\ Analysis(doc') = Analysis(newDocumentFS(doc.uri, doc'.text, doc.fsys))]_vars

\* The text was changed twice, last to the empty text, from a text with
\* definitions and diagnostics: none is left.
C39_Witness ==
    /\ doc.opened
    /\ doc.hist.edits = 2
    /\ doc.text = ""
    /\ doc.defs = <<>>
    /\ doc.exprs = <<>>
    /\ doc.errors = <<>>

\* The text was changed to one that defines greet after including a file
\* that defines it: the table holds the definition a new document holds.
C39_WitnessDefines ==
    /\ doc.opened
    /\ doc.hist.edits = 1
    /\ doc.text = "include lib\ndefine greet\n\techo from main\n"
    /\ "greet" \in DOMAIN doc.defs

====
